---- MODULE Spec2Model ----
(***************************************************************************)
(* Model of the frameworkless retrieval service                            *)
(*   RAG_without_framework/src/services/service1.py   (RAGService)         *)
(*   RAG_without_framework/src/services/llm_service.py (LLMService)        *)
(* Strings are sequences of one-character strings; a file on disk is a     *)
(* record [state, data]; the vector index is a record [present, vectors].  *)
(***************************************************************************)
EXTENDS Integers, Sequences, FiniteSets, TLC

(* ------------------------------ bounds -------------------------------- *)
\* cap on the collection length (guard of add_documents in the model)
MaxDocs == 2
\* texts passed to one add_documents call
MaxTexts == 2
\* input/output failures injected in one behaviour
MaxFaults == 1
\* largest top_k a query asks for
MaxTopK == 2
\* words of the text given to chunk_text in SpecChunk
MaxWords == 8
\* largest chunk_size / chunk_overlap tried in SpecChunk
MaxChunk == 5

(* ------------------------- program constants -------------------------- *)
DefaultChunkSize == 512
DefaultChunkOverlap == 50
PreviewLen == 100

(* ------------------------------ alphabet ------------------------------ *)
\* \s of the regular expressions and of str.split()
WhiteSpace == {" ", "\t"}
\* \w
WordChars == {"a", "b"}
\* the punctuation clean_text keeps: . , ! ? ; : - ( )
Punct == {".", ",", "!", "?", ";", ":", "-", "(", ")"}

(* --------------------------- string helpers --------------------------- *)
RECURSIVE LStrip(_)
\* str.lstrip(): drop leading white space
LStrip(t) ==
  IF t # <<>> /\ Head(t) \in WhiteSpace THEN LStrip(Tail(t)) ELSE t

RECURSIVE RStrip(_)
\* str.rstrip(): drop trailing white space
RStrip(t) ==
  IF t # <<>> /\ t[Len(t)] \in WhiteSpace
  THEN RStrip(SubSeq(t, 1, Len(t) - 1)) ELSE t

\* str.strip()
Strip(t) == RStrip(LStrip(t))

RECURSIVE CollapseWs(_)
\* re.sub(r'\s+', ' ', text): every maximal run of white space becomes one blank
CollapseWs(t) ==
  IF t = <<>> THEN <<>>
  ELSE IF Head(t) \in WhiteSpace
       THEN <<" ">> \o CollapseWs(LStrip(Tail(t)))
       ELSE <<Head(t)>> \o CollapseWs(Tail(t))

\* the character class [\w\s\.\,\!\?\;\:\-\(\)] of clean_text
Kept(c) == c \in WordChars \cup WhiteSpace \cup Punct

\* re.sub(r'[^\w\s\.\,\!\?\;\:\-\(\)]', '', text)
RemoveSpecial(t) == SelectSeq(t, Kept)

\* RAGService.clean_text
clean_text(text) == Strip(RemoveSpecial(CollapseWs(text)))

RECURSIVE TakeWord(_)
\* the leading run of non-white-space characters
TakeWord(t) ==
  IF t = <<>> \/ Head(t) \in WhiteSpace THEN <<>>
  ELSE <<Head(t)>> \o TakeWord(Tail(t))

RECURSIVE Split(_)
\* str.split(): the maximal runs of non-white-space characters, in order
Split(t) ==
  LET u == LStrip(t)
      w == TakeWord(u)
  IN IF u = <<>> THEN <<>>
     ELSE <<w>> \o Split(SubSeq(u, Len(w) + 1, Len(u)))

RECURSIVE Join(_)
\* ' '.join(words)
Join(words) ==
  IF words = <<>> THEN <<>>
  ELSE IF Len(words) = 1 THEN words[1]
       ELSE words[1] \o <<" ">> \o Join(Tail(words))

\* mutant of PySlice: the window ends one element early
PySlice_OneShort(s, i, j) ==
  LET e0 == IF j < 0 THEN Len(s) + j ELSE j
      e1 == IF e0 < 0 THEN 0 ELSE IF e0 > Len(s) THEN Len(s) ELSE e0
      e  == e1 - 1
  IN IF e > i THEN SubSeq(s, i + 1, e) ELSE <<>>

\* Python seq[i:j] for 0 <= i <= len(seq): a negative j counts from the end
PySlice(s, i, j) ==
  LET e0 == IF j < 0 THEN Len(s) + j ELSE j
      e  == IF e0 < 0 THEN 0 ELSE IF e0 > Len(s) THEN Len(s) ELSE e0
  IN IF e > i THEN SubSeq(s, i + 1, e) ELSE <<>>

RECURSIVE PyRange(_, _, _)
\* list(range(start, stop, step)) for step # 0
PyRange(start, stop, step) ==
  IF (step > 0 /\ start < stop) \/ (step < 0 /\ start > stop)
  THEN <<start>> \o PyRange(start + step, stop, step)
  ELSE <<>>

(* ------------------------------ chunking ------------------------------ *)
RECURSIVE ChunkLoop(_, _, _)
\* the for loop of chunk_text over the start positions `starts`
ChunkLoop(words, starts, size) ==
  IF starts = <<>> THEN <<>>
  ELSE LET chunk == Join(PySlice(words, Head(starts), Head(starts) + size))
       IN (IF Strip(chunk) # <<>> THEN <<chunk>> ELSE <<>>)
          \o ChunkLoop(words, Tail(starts), size)

\* mutant of ChunkStride: the window advances by chunk_size, the overlap ignored
ChunkStride_NoOverlap(size, overlap) == size

\* the step of the range in chunk_text
ChunkStride(size, overlap) == size - overlap

\* RAGService.chunk_text with self.chunk_size = size, self.chunk_overlap = overlap:
\* range() raises ValueError when its step is zero
chunk_text(text, size, overlap) ==
  LET words == Split(text)
      step  == ChunkStride(size, overlap)
  IN IF step = 0
     THEN [raised |-> TRUE, chunks |-> <<>>]
     ELSE [raised |-> FALSE,
           chunks |-> ChunkLoop(words, PyRange(0, Len(words), step), size)]

(* ------------------------------ state --------------------------------- *)
VARIABLES
  documents,            \* self.documents: the chunk records, in insertion order
  document_embeddings,  \* self.document_embeddings: one row per embedded chunk
  index,                \* self.index: [present, vectors]; present = FALSE is None
  embedding_model,      \* TRUE when self.embedding_model is loaded
  chunk_size,           \* self.chunk_size
  chunk_overlap,        \* self.chunk_overlap
  client,               \* TRUE when self.llm_service.client is set
  documents_file,       \* database/documents.json
  embeddings_file,      \* database/embeddings.pkl
  index_file,           \* database/faiss_index.bin
  data_dir,             \* data/: [exists, files]
  last,                 \* the last call made on the service and how it ended
  ingest_only,          \* TRUE while every call so far was a returned add_documents or a query
  faults,               \* how many file or model operations have been made to fail so far
  ct_text,              \* SpecChunk: the text handed to chunk_text
  ct_out,               \* SpecChunk: what chunk_text did with it
  initialized,          \* RAGAPIRouter.initialized
  response,             \* the router's answer to the last request: [endpoint, status]
  ing,                  \* SpecRace: the thread running add_documents
  qry,                  \* SpecRace: the thread running query
  observed,             \* SpecRace: the kinds of inconsistent pair a query has seen
  lc_initialized,       \* LangChainRAGAPIRouter.initialized
  pdf_processed,        \* LangChainRAGAPIRouter.pdf_processed
  vector_store,         \* LangChainRAGAPIRouter.vector_service.vector_store
  llm_service,          \* LangChainRAGAPIRouter.llm_service: [model_name, chain]
  lc_response,          \* the LangChain router's answer to the last request
  session_state,        \* the weather page's st.session_state
  memory,               \* the weather bot's process-wide memory object
  rerun,                \* TRUE when st.rerun() was called and the script has not run since
  validated,            \* what the last validate_city_and_get_weather call did
  adders,               \* SpecAdders: the two threads running add_documents
  request,              \* the method and chunking parameters of the last request served
  config_reply          \* the chunk_size and chunk_overlap members of the last response

vars == <<documents, document_embeddings, index, embedding_model, chunk_size,
          chunk_overlap, client, documents_file, embeddings_file, index_file,
          data_dir, last, ingest_only, faults, ct_text, ct_out,
          initialized, response, ing, qry, observed, lc_initialized,
          pdf_processed, vector_store, llm_service, lc_response,
          session_state, memory, rerun, validated, adders, request,
          config_reply>>

\* the variables of each part of the repository
chunk_vars == <<ct_text, ct_out>>
router_vars == <<initialized, response, request, config_reply>>
race_vars == <<ing, qry, observed>>
langchain_vars == <<lc_initialized, pdf_processed, vector_store, llm_service,
                    lc_response>>
weather_vars == <<session_state, memory, rerun, validated>>
adder_vars == <<adders>>

(* ------------------------------ values -------------------------------- *)
\* self.index = None
NoIndex == [present |-> FALSE, vectors |-> <<>>]
\* a path that does not exist
AbsentFile == [state |-> "absent", data |-> <<>>]
\* a file a failed write left truncated: reading it raises
CorruptFile == [state |-> "corrupt", data |-> <<>>]
\* a file holding `data`
FileOf(data) == [state |-> "ok", data |-> data]
\* Path.exists()
Exists(file) == file.state # "absent"

\* the vector the embedding model returns for a string (deterministic)
Embed(content) == [of |-> content]

\* self.embedding_model.encode(texts).astype(np.float32): one row per record
EncodeAll(docs) == [i \in 1..Len(docs) |-> Embed(docs[i].content)]

\* number of vectors in the index, None counting as 0
IndexSize(idx) == IF idx.present THEN Len(idx.vectors) ELSE 0

\* f"doc_{i}" for the 0-based position i of a text in the call
DocName(i) == <<"doc_0", "doc_1", "doc_2", "doc_3">>[i + 1]

\* file_names[i] if file_names and i < len(file_names) else f"doc_{i}"
FileNameAt(file_names, i) ==
  IF file_names # <<>> /\ i < Len(file_names) THEN file_names[i + 1] ELSE DocName(i)

\* text[:100] + "..." if len(text) > 100 else text
OriginalPreview(text) ==
  IF Len(text) > PreviewLen
  THEN SubSeq(text, 1, PreviewLen) \o <<".", ".", ".">>
  ELSE text

\* mutant of AppendChunks: the id is built from the chunk's number within its
\* text only, f"doc_{j}"
AppendChunks_ChunkNumberId(docs, chunks, j, file_name, text) ==
  docs \o [k \in 1..Len(chunks) |->
             [id |-> <<j + k - 1, j + k - 1>>, content |-> chunks[k],
              file_name |-> file_name, original_text |-> OriginalPreview(text)]]

\* mutant of AppendChunks: the new records are put in front of the old ones
AppendChunks_Front(docs, chunks, j, file_name, text) ==
  [k \in 1..Len(chunks) |->
     [id |-> <<Len(docs) + k - 1, j + k - 1>>, content |-> chunks[k],
      file_name |-> file_name, original_text |-> OriginalPreview(text)]] \o docs

RECURSIVE AppendChunks(_, _, _, _, _)
\* the inner loop of add_documents: chunk number j of the text gets the id
\* f"doc_{len(self.documents)}_{j}", len taken at the moment of the append
AppendChunks(docs, chunks, j, file_name, text) ==
  IF chunks = <<>> THEN docs
  ELSE AppendChunks(
         Append(docs, [id |-> <<Len(docs), j>>,
                       content |-> Head(chunks),
                       file_name |-> file_name,
                       original_text |-> OriginalPreview(text)]),
         Tail(chunks), j + 1, file_name, text)

\* uploads: white space and a deleted character only (no word), and two
\* words separated by a tab, a blank and a deleted character
Texts == {<<" ", "#">>, <<"a", "\t", " ", "#", "b">>}

\* settings: the defaults, and a one-word window with stride 1, 0 and -49
Configs == {<<DefaultChunkSize, DefaultChunkOverlap>>, <<1, 0>>, <<1, 1>>,
            <<1, DefaultChunkOverlap>>}

\* self.chunk_text(self.clean_text(text)) for every upload and setting of Spec,
\* tabulated once
Chunked ==
  [t \in Texts, c \in Configs |-> chunk_text(clean_text(t), c[1], c[2])]

\* mutant of CountAdded: one is counted per text, not per chunk
CountAdded_PerText(added, chunks) == added + 1

\* documents_added += 1 for every chunk of a text
CountAdded(added, chunks) == added + Len(chunks)

RECURSIVE IngestLoop(_, _, _, _, _, _, _, _, _)
\* the outer loop of add_documents from text number i (0-based) on.
\* failAt = i makes the write of that text's copy under data/ raise;
\* added is documents_added so far.
IngestLoop(texts, file_names, i, docs, files, size, overlap, failAt, added) ==
  IF i >= Len(texts)
  THEN [raised |-> FALSE, documents |-> docs, files |-> files, added |-> added]
  ELSE LET text      == texts[i + 1]
           r         == Chunked[text, <<size, overlap>>]
           file_name == FileNameAt(file_names, i)
       IN IF r.raised \/ failAt = i
          THEN [raised |-> TRUE, documents |-> docs, files |-> files,
                added |-> added]
          ELSE IngestLoop(texts, file_names, i + 1,
                          AppendChunks(docs, r.chunks, 0, file_name, text),
                          files \cup {file_name}, size, overlap, failAt,
                          CountAdded(added, r.chunks))

\* mutant of update_embeddings: the model is loaded before the collection is
\* tested for emptiness
update_embeddings_EagerLoad(docs, emb, idx, model, fault) ==
  IF ~model /\ fault = "model_load"
  THEN [raised |-> TRUE, document_embeddings |-> emb, index |-> idx,
        embedding_model |-> FALSE]
  ELSE IF docs = <<>>
  THEN [raised |-> FALSE, document_embeddings |-> emb, index |-> idx,
        embedding_model |-> TRUE]
  ELSE IF fault = "encode"
  THEN [raised |-> TRUE, document_embeddings |-> emb, index |-> idx,
        embedding_model |-> TRUE]
  ELSE IF fault = "index_add"
  THEN [raised |-> TRUE, document_embeddings |-> EncodeAll(docs),
        index |-> [present |-> TRUE, vectors |-> <<>>],
        embedding_model |-> TRUE]
  ELSE [raised |-> FALSE, document_embeddings |-> EncodeAll(docs),
        index |-> [present |-> TRUE, vectors |-> EncodeAll(docs)],
        embedding_model |-> TRUE]

\* RAGService.update_embeddings; fault names the step that raises, if reached
update_embeddings(docs, emb, idx, model, fault) ==
  IF docs = <<>>
  THEN [raised |-> FALSE, document_embeddings |-> emb, index |-> idx,
        embedding_model |-> model]
  ELSE IF ~model /\ fault = "model_load"
  THEN [raised |-> TRUE, document_embeddings |-> emb, index |-> idx,
        embedding_model |-> FALSE]
  ELSE IF fault = "encode"
  THEN [raised |-> TRUE, document_embeddings |-> emb, index |-> idx,
        embedding_model |-> TRUE]
  ELSE IF fault = "index_add"
  THEN [raised |-> TRUE, document_embeddings |-> EncodeAll(docs),
        index |-> [present |-> TRUE, vectors |-> <<>>],
        embedding_model |-> TRUE]
  ELSE [raised |-> FALSE, document_embeddings |-> EncodeAll(docs),
        index |-> [present |-> TRUE, vectors |-> EncodeAll(docs)],
        embedding_model |-> TRUE]

\* json.dump(self.documents, f): each record written as its four members
JsonDump(docs) ==
  [i \in 1..Len(docs) |->
     <<docs[i].id, docs[i].content, docs[i].file_name, docs[i].original_text>>]

\* json.load(f): the records read back from their members
JsonLoad(data) ==
  [i \in 1..Len(data) |->
     [id |-> data[i][1], content |-> data[i][2],
      file_name |-> data[i][3], original_text |-> data[i][4]]]

\* mutant of save_data: the embeddings file is never written
save_data_NoEmbeddings(docs, emb, idx, dfile, efile, ifile, fault) ==
  [ok |-> TRUE, documents_file |-> FileOf(JsonDump(docs)),
   embeddings_file |-> efile,
   index_file |-> IF idx.present THEN FileOf(idx.vectors) ELSE ifile]

\* RAGService.save_data: documents, then embeddings, then the index when there
\* is one.  open(path, 'w') empties the file, so a write that raises leaves it
\* truncated; the first write that raises ends the call, and the exception is
\* printed, not raised.  ok tells whether every write was done.
save_data(docs, emb, idx, dfile, efile, ifile, fault) ==
  IF fault = "save_docs"
  THEN [ok |-> FALSE, documents_file |-> CorruptFile,
        embeddings_file |-> efile, index_file |-> ifile]
  ELSE IF fault = "save_emb"
  THEN [ok |-> FALSE, documents_file |-> FileOf(JsonDump(docs)),
        embeddings_file |-> CorruptFile, index_file |-> ifile]
  ELSE IF idx.present /\ fault = "save_idx"
  THEN [ok |-> FALSE, documents_file |-> FileOf(JsonDump(docs)),
        embeddings_file |-> FileOf(emb), index_file |-> CorruptFile]
  ELSE [ok |-> TRUE, documents_file |-> FileOf(JsonDump(docs)),
        embeddings_file |-> FileOf(emb),
        index_file |-> IF idx.present THEN FileOf(idx.vectors) ELSE ifile]

\* mutant of load_existing_data: a failed load of the embeddings or of the
\* index leaves the documents that were read in place
load_existing_data_KeepDocuments(docs, dfile, efile, ifile) ==
  LET docs1 == IF dfile.state = "ok" THEN JsonLoad(dfile.data) ELSE docs
  IN IF Exists(ifile) /\ Exists(efile) /\ dfile.state # "corrupt"
        /\ efile.state = "ok" /\ ifile.state = "ok"
     THEN [documents |-> docs1, document_embeddings |-> efile.data,
           index |-> [present |-> TRUE, vectors |-> ifile.data]]
     ELSE [documents |-> docs1, document_embeddings |-> <<>>, index |-> NoIndex]

\* RAGService.load_existing_data: any exception empties the store
load_existing_data(docs, dfile, efile, ifile) ==
  LET empty == [documents |-> <<>>, document_embeddings |-> <<>>, index |-> NoIndex]
      docs1 == IF Exists(dfile) THEN JsonLoad(dfile.data) ELSE docs
  IN IF dfile.state = "corrupt" THEN empty
     ELSE IF Exists(ifile) /\ Exists(efile)
          THEN IF efile.state = "corrupt" \/ ifile.state = "corrupt"
               THEN empty
               ELSE [documents |-> docs1, document_embeddings |-> efile.data,
                     index |-> [present |-> TRUE, vectors |-> ifile.data]]
          ELSE [documents |-> docs1, document_embeddings |-> <<>>, index |-> NoIndex]

(* ------------------------------ LLM client ---------------------------- *)
NoDocsMsg == "No documents available. Please upload some documents first."
NotEnoughInfoMsg == "I don't have enough information to answer this question."
ApologyMsg == "I apologize, but I encountered an error while generating the answer: <error>"
LlmText == "<generated text>"

\* LLMService._call_groq_api_directly: catches everything, returns the apology
call_groq_api_directly(http_ok) == IF http_ok THEN LlmText ELSE ApologyMsg

\* mutant of generate_answer: the HTTP call is made after the client-library
\* call whether or not that one failed
generate_answer_BothPaths(cl, init_ok, lib_ok, http_ok) ==
  IF ~cl /\ ~init_ok
  THEN [raised |-> TRUE, answer |-> "", client |-> FALSE,
        lib_calls |-> 0, http_calls |-> 0, lib_failed |-> FALSE,
        http_failed |-> FALSE]
  ELSE [raised |-> FALSE, answer |-> call_groq_api_directly(http_ok),
        client |-> TRUE, lib_calls |-> 1, http_calls |-> 1,
        lib_failed |-> ~lib_ok, http_failed |-> ~http_ok]

\* LLMService.generate_answer.  init_ok, lib_ok, http_ok: whether groq.Groq(),
\* the client-library call and the HTTP call succeed.  `prompt` is bound after
\* the lazy initialize(), so the handler's use of it raises when initialize() did.
generate_answer(cl, init_ok, lib_ok, http_ok) ==
  IF ~cl /\ ~init_ok
  THEN [raised |-> TRUE, answer |-> "", client |-> FALSE,
        lib_calls |-> 0, http_calls |-> 0, lib_failed |-> FALSE,
        http_failed |-> FALSE]
  ELSE IF lib_ok
  THEN [raised |-> FALSE, answer |-> LlmText, client |-> TRUE,
        lib_calls |-> 1, http_calls |-> 0, lib_failed |-> FALSE,
        http_failed |-> FALSE]
  ELSE [raised |-> FALSE, answer |-> call_groq_api_directly(http_ok),
        client |-> TRUE, lib_calls |-> 1, http_calls |-> 1,
        lib_failed |-> TRUE, http_failed |-> ~http_ok]

(* ------------------------------ query --------------------------------- *)
\* the positions index.search returns: the ranked rows, then -1 placeholders
\* up to top_k entries
SearchPositions(ranking, top_k) ==
  [i \in 1..top_k |-> IF i <= Len(ranking) THEN ranking[i] ELSE -1]

\* documents[idx] for a Python index: a negative idx counts from the end
PyItem(docs, idx) == IF idx < 0 THEN docs[Len(docs) + idx + 1] ELSE docs[idx + 1]

RECURSIVE RelevantDocs(_, _)
\* the loop over the search result: every idx < len(self.documents) is taken
RelevantDocs(docs, positions) ==
  IF positions = <<>> THEN <<>>
  ELSE (IF Head(positions) < Len(docs)
        THEN <<PyItem(docs, Head(positions))>> ELSE <<>>)
       \o RelevantDocs(docs, Tail(positions))

\* documents[idx] raises IndexError for an idx the loop lets through
IndexError(docs, positions) ==
  \E i \in 1..Len(positions) :
    positions[i] < Len(docs) /\ positions[i] < 0 - Len(docs)

\* mutant of QueryNoDocs: only the index is tested
QueryNoDocs_IndexOnly(docs, idx) == ~idx.present

\* the first test of RAGService.query
QueryNoDocs(docs, idx) == docs = <<>> \/ ~idx.present

\* what query returns in that case
NoDocsResult == [answer |-> NoDocsMsg, sources |-> <<>>, confidence |-> "0.0"]

\* the rankings a search for top_k among n stored vectors can return:
\* min(top_k, n) distinct rows 0..n-1, best first
Rankings(n, top_k) ==
  LET len == IF top_k < n THEN top_k ELSE n
  IN {r \in [1..len -> 0..(n - 1)] :
        \A i, j \in 1..len : i # j => r[i] # r[j]}

(* ------------------------------ last call ----------------------------- *)
NoCall == [op |-> "construct", outcome |-> "returned", count |-> 0,
           save_ok |-> TRUE, answer |-> "", sources |-> <<>>,
           confidence |-> "", llm |-> "not called", lib_calls |-> 0,
           http_calls |-> 0, lib_failed |-> FALSE, http_failed |-> FALSE,
           twice |-> FALSE, before |-> 0, stride |-> 0, added |-> 0,
           top_k |-> 0, ranking |-> <<>>]

(* ------------------------------ inputs -------------------------------- *)
TextSeqs == UNION {[1..n -> Texts] : n \in 1..MaxTexts}
\* file_names: one name, for the first text of the call
FileNameSeqs == {<<"f">>}
Questions == {<<"a">>}
\* values the router writes into chunk_size / chunk_overlap
AddFaults == {"none", "model_load", "encode", "index_add",
              "save_docs", "save_emb", "save_idx"}
ClearFaults == {"none", "unlink_docs", "unlink_emb", "unlink_idx", "rmtree"}

(* ------------------- the parts a specification leaves alone ----------- *)
\* no request answered yet
NoResponse == [endpoint |-> "none", status |-> "none"]

\* a parameter the request does not carry, and one it carries
Omitted == [given |-> FALSE, value |-> 0]
Given(v) == [given |-> TRUE, value |-> v]

\* no request served yet, or one whose chunking parameters are not read
NoRequest == [method |-> "none", chunk_size |-> Omitted, chunk_overlap |-> Omitted]

\* a response without chunk_size and chunk_overlap members
NoConfig == [present |-> FALSE, chunk_size |-> 0, chunk_overlap |-> 0]

\* RAGAPIRouter.__init__: no service made, initialized False
RouterIdle ==
  /\ initialized = FALSE /\ response = NoResponse
  /\ request = NoRequest /\ config_reply = NoConfig

\* no add_documents call running
IngIdle == [pc |-> "idle", text |-> <<>>, file_name |-> "", chunks |-> <<>>,
            j |-> 0, added |-> 0, embeddings |-> <<>>, trace |-> <<>>,
            returned |-> FALSE]

\* no query call running
QryIdle == [pc |-> "idle", top_k |-> 0, n |-> 0, positions |-> <<>>,
            overlapped |-> FALSE, sources |-> <<>>]

\* no thread inside the service
RaceIdle == ing = IngIdle /\ qry = QryIdle /\ observed = {}

\* VectorService.vector_store = None
NoStore == [present |-> FALSE, texts |-> <<>>]

\* LangChainRAGAPIRouter.llm_service = None
NoLlm == [present |-> FALSE, model_name |-> "", chain |-> FALSE]

\* no request answered yet by the LangChain router
NoReply == [endpoint |-> "none", status |-> "none", error |-> "",
            chunks |-> <<>>, searched |-> <<>>]

\* LangChainRAGAPIRouter.__init__: no service made, both flags False
LangChainIdle ==
  /\ lc_initialized = FALSE
  /\ pdf_processed = FALSE
  /\ vector_store = NoStore
  /\ llm_service = NoLlm
  /\ lc_response = NoReply

\* "state" not in st.session_state: a session before its first script run,
\* or after st.session_state.clear()
NoSession == [present |-> FALSE, node |-> "", user_input |-> <<>>,
              message |-> "", next |-> "", conversation_history |-> <<>>]

\* the memory object with nothing set
NoMemory == [set |-> FALSE, last_location |-> <<>>, last_weather |-> ""]

\* validate_city_and_get_weather not called yet
NotValidated == [city |-> <<>>, lookup |-> "not called", weather |-> "",
                 is_valid |-> FALSE]

\* the weather page not opened
WeatherIdle ==
  /\ session_state = NoSession
  /\ memory = NoMemory
  /\ rerun = FALSE
  /\ validated = NotValidated

\* no add_documents call running
AdderIdle == [pc |-> "idle", text |-> <<>>, file_name |-> "", chunks |-> <<>>,
              j |-> 0, embeddings |-> <<>>, returned |-> FALSE]

\* no thread inside add_documents
AddersIdle == adders = [t \in 1..2 |-> AdderIdle]

\* chunk_text not called on its own
ChunkIdle ==
  /\ ct_text = <<>>
  /\ ct_out = [done |-> FALSE, raised |-> FALSE, chunks |-> <<>>]

\* RAGService.__init__ on an empty working directory
ServiceInit ==
  /\ documents = <<>>
  /\ document_embeddings = <<>>
  /\ index = NoIndex
  /\ embedding_model = FALSE
  /\ chunk_size = DefaultChunkSize
  /\ chunk_overlap = DefaultChunkOverlap
  /\ client = FALSE
  /\ documents_file = AbsentFile
  /\ embeddings_file = AbsentFile
  /\ index_file = AbsentFile
  /\ data_dir = [exists |-> TRUE, files |-> {}]
  /\ last = NoCall
  /\ ingest_only = TRUE
  /\ faults = 0

(* ------------------------------ Init ---------------------------------- *)
\* RAGService.__init__ on an empty working directory
Init == ServiceInit /\ ChunkIdle /\ RouterIdle /\ RaceIdle /\ LangChainIdle /\ WeatherIdle /\ AddersIdle

(* ------------------------------ actions ------------------------------- *)
\* mutant of Reraise: the records appended by the failed call are taken out
Reraise_RollBack(docs_before, docs_now) == docs_before

\* `except Exception as e: print(...); raise` of add_documents: the
\* collection stays as the failed call left it
Reraise(docs_before, docs_now) == docs_now

\* RAGService.add_documents(texts, file_names) run with self.chunk_size = size
\* and self.chunk_overlap = overlap.  failAt: the text whose copy under data/
\* cannot be written (-1: none); fault: the later step that fails.
AddDocumentsWith(texts, file_names, failAt, fault, size, overlap) ==
  LET il  == IngestLoop(texts, file_names, 0, documents, data_dir.files,
                        size, overlap, failAt, 0)
      upd == update_embeddings(il.documents, document_embeddings, index,
                               embedding_model, fault)
      sav == save_data(il.documents, upd.document_embeddings, upd.index,
                       documents_file, embeddings_file, index_file, fault)
      injected == failAt >= 0 \/ fault # "none"
      \* the same call with nothing made to fail
      il0  == IngestLoop(texts, file_names, 0, documents, data_dir.files,
                         size, overlap, -1, 0)
      upd0 == update_embeddings(il.documents, document_embeddings, index,
                                embedding_model, "none")
      sav0 == save_data(il.documents, upd.document_embeddings, upd.index,
                        documents_file, embeddings_file, index_file, "none")
      \* the failing step is one the call reaches
      reached == IF failAt >= 0 THEN il # il0
                 ELSE ~il.raised /\ (upd # upd0 \/ (~upd.raised /\ sav # sav0))
      called == [NoCall EXCEPT !.op = "add", !.before = Len(documents),
                               !.stride = size - overlap,
                               !.added = il.added]
  IN /\ injected => faults < MaxFaults
     /\ Len(il.documents) <= MaxDocs
     /\ injected => reached
     /\ faults' = IF injected THEN faults + 1 ELSE faults
     /\ documents' = IF il.raised \/ upd.raised
                     THEN Reraise(documents, il.documents)
                     ELSE il.documents
     /\ data_dir' = [data_dir EXCEPT !.files = il.files]
     /\ chunk_size' = size
     /\ chunk_overlap' = overlap
     /\ UNCHANGED <<client, chunk_vars, race_vars, langchain_vars, weather_vars, adder_vars>>
     /\ IF il.raised
        THEN /\ UNCHANGED <<document_embeddings, index, embedding_model,
                            documents_file, embeddings_file, index_file>>
             /\ last' = [called EXCEPT !.outcome = "raised"]
             /\ ingest_only' = FALSE
        ELSE /\ document_embeddings' = upd.document_embeddings
             /\ index' = upd.index
             /\ embedding_model' = upd.embedding_model
             /\ IF upd.raised
                THEN /\ UNCHANGED <<documents_file, embeddings_file, index_file>>
                     /\ last' = [called EXCEPT !.outcome = "raised"]
                     /\ ingest_only' = FALSE
                ELSE /\ documents_file' = sav.documents_file
                     /\ embeddings_file' = sav.embeddings_file
                     /\ index_file' = sav.index_file
                     /\ last' = [called EXCEPT !.count = il.added,
                                               !.save_ok = sav.ok]
                     /\ UNCHANGED ingest_only

\* RAGService.add_documents(texts, file_names) with the settings in force
AddDocuments(texts, file_names, failAt, fault) ==
  AddDocumentsWith(texts, file_names, failAt, fault, chunk_size, chunk_overlap)

\* mutant of UnlinkRaises: unlink() without the exists() test raises
\* FileNotFoundError on a missing file
UnlinkRaises_Unguarded(file, hit) == hit \/ ~Exists(file)

\* `if path.exists(): path.unlink()` raises only when the unlink is attempted
\* and fails (hit)
UnlinkRaises(file, hit) == hit /\ Exists(file)

\* mutant of ClearedDataDir: the copies under data/ are left in place
ClearedDataDir_Kept(dir) == dir

\* shutil.rmtree(self.data_dir); self.data_dir.mkdir(exist_ok=True)
ClearedDataDir(dir) == [exists |-> TRUE, files |-> {}]

\* RAGService.clear_documents.  fault: the removal that raises, if it is
\* attempted; left: what a failed rmtree leaves under data/
ClearDocuments(fault, left) ==
  LET f1 == UnlinkRaises(documents_file, fault = "unlink_docs")
      f2 == ~f1 /\ UnlinkRaises(embeddings_file, fault = "unlink_emb")
      f3 == ~f1 /\ ~f2 /\ UnlinkRaises(index_file, fault = "unlink_idx")
      f4 == /\ ~f1 /\ ~f2 /\ ~f3
            /\ fault = "rmtree" /\ data_dir.exists /\ data_dir.files # {}
  IN /\ IF f4 THEN left # {} /\ left \subseteq data_dir.files ELSE left = {}
     /\ fault # "none" => faults < MaxFaults /\ (f1 \/ f2 \/ f3 \/ f4)
     /\ faults' = IF fault # "none" THEN faults + 1 ELSE faults
     /\ documents' = <<>>
     /\ document_embeddings' = <<>>
     /\ index' = NoIndex
     /\ documents_file' = IF f1 THEN documents_file ELSE AbsentFile
     /\ embeddings_file' = IF f1 \/ f2 THEN embeddings_file ELSE AbsentFile
     /\ index_file' = IF f1 \/ f2 \/ f3 THEN index_file ELSE AbsentFile
     /\ data_dir' = IF f1 \/ f2 \/ f3 THEN data_dir
                    ELSE IF f4 THEN [exists |-> TRUE, files |-> left]
                    ELSE IF data_dir.exists THEN ClearedDataDir(data_dir)
                    ELSE data_dir
     /\ last' = [NoCall EXCEPT !.op = "clear",
                   !.outcome = IF f1 \/ f2 \/ f3 \/ f4 THEN "raised" ELSE "returned",
                   !.twice = (last.op = "clear" /\ last.outcome = "returned")]
     /\ ingest_only' = FALSE
     /\ UNCHANGED <<embedding_model, chunk_size, chunk_overlap, client,
                    chunk_vars, race_vars, langchain_vars, weather_vars, adder_vars>>

\* mutant of Query: the call writes the collection to the documents file
\* before it returns
Query_Saves(question, top_k, ranking, fault, init_ok, lib_ok, http_ok) ==
  /\ last' = [NoCall EXCEPT !.op = "query", !.top_k = top_k]
  /\ documents_file' = FileOf(JsonDump(documents))
  /\ UNCHANGED <<documents, document_embeddings, index, embedding_model,
                 chunk_size, chunk_overlap, client, embeddings_file, index_file,
                 data_dir, ingest_only, faults, chunk_vars, race_vars,
                 langchain_vars, weather_vars, adder_vars>>

\* RAGService.query(question, top_k).  ranking: the rows the index ranks for
\* the question; fault: the step before the search that raises; init_ok,
\* lib_ok, http_ok: the outcomes of the LLM client's steps
Query(question, top_k, ranking, fault, init_ok, lib_ok, http_ok) ==
  LET positions == SearchPositions(ranking, top_k)
      relevant  == RelevantDocs(documents, positions)
      gen       == generate_answer(client, init_ok, lib_ok, http_ok)
      loadFails == ~embedding_model /\ fault = "model_load"
      early     == loadFails \/ fault = "encode" \/ IndexError(documents, positions)
      conf      == IF ranking = <<>> THEN "placeholder score" ELSE "top score"
  IN /\ UNCHANGED <<documents, document_embeddings, index, chunk_size,
                    chunk_overlap, documents_file, embeddings_file, index_file,
                    data_dir, ingest_only, faults, chunk_vars, race_vars,
                    langchain_vars, weather_vars, adder_vars>>
     /\ IF QueryNoDocs(documents, index)
        THEN /\ last' = [NoCall EXCEPT !.op = "query",
                           !.answer = NoDocsResult.answer,
                           !.sources = NoDocsResult.sources,
                           !.confidence = NoDocsResult.confidence]
             /\ UNCHANGED <<embedding_model, client>>
        ELSE /\ ranking \in Rankings(Len(index.vectors), top_k)
             /\ embedding_model' = ~loadFails
             /\ IF early
                THEN /\ last' = [NoCall EXCEPT !.op = "query", !.outcome = "raised"]
                     /\ UNCHANGED client
                ELSE IF relevant = <<>>
                THEN /\ last' = [NoCall EXCEPT !.op = "query",
                                   !.answer = NotEnoughInfoMsg,
                                   !.confidence = conf]
                     /\ UNCHANGED client
                ELSE /\ client' = gen.client
                     /\ last' = [NoCall EXCEPT !.op = "query",
                                   !.top_k = top_k, !.ranking = ranking,
                                   !.outcome = IF gen.raised THEN "raised" ELSE "returned",
                                   !.llm = IF gen.raised THEN "raised" ELSE "returned",
                                   !.answer = gen.answer,
                                   !.sources = IF gen.raised THEN <<>>
                                               ELSE [i \in 1..Len(relevant) |-> relevant[i].id],
                                   !.confidence = IF gen.raised THEN "" ELSE conf,
                                   !.lib_calls = gen.lib_calls,
                                   !.http_calls = gen.http_calls,
                                   !.lib_failed = gen.lib_failed,
                                   !.http_failed = gen.http_failed]

\* a new process: RAGService() and then initialize(), as the router and the
\* Streamlit page do.  __init__ gives fresh memory and makes the directories;
\* initialize runs load_existing_data on the files the previous process left,
\* then LLMService.initialize, which raises when groq.Groq() does (init_ok)
Restart(init_ok) ==
  LET ld == load_existing_data(<<>>, documents_file, embeddings_file, index_file)
  IN /\ documents' = ld.documents
     /\ document_embeddings' = ld.document_embeddings
     /\ index' = ld.index
     /\ embedding_model' = FALSE
     /\ chunk_size' = DefaultChunkSize
     /\ chunk_overlap' = DefaultChunkOverlap
     /\ client' = init_ok
     /\ data_dir' = [data_dir EXCEPT !.exists = TRUE]
     /\ last' = [NoCall EXCEPT !.op = "initialize",
                   !.outcome = IF init_ok THEN "returned" ELSE "raised"]
     /\ ingest_only' = FALSE
     /\ UNCHANGED <<documents_file, embeddings_file, index_file, faults,
                    chunk_vars, race_vars, langchain_vars, weather_vars, adder_vars>>

\* the router's assignments to chunk_size and chunk_overlap
SetConfig(size, overlap) ==
  /\ <<size, overlap>> # <<chunk_size, chunk_overlap>>
  /\ chunk_size' = size
  /\ chunk_overlap' = overlap
  /\ UNCHANGED <<last, documents, document_embeddings, index, embedding_model, client,
                 documents_file, embeddings_file, index_file, data_dir,
                 ingest_only, faults, chunk_vars, race_vars, langchain_vars, weather_vars, adder_vars>>

\* Spec: the service used directly, as the Streamlit page does; no router
DoAdd ==
  /\ \E texts \in TextSeqs, file_names \in FileNameSeqs, fault \in AddFaults :
       \E failAt \in -1..(Len(texts) - 1) :
         /\ failAt >= 0 => fault = "none"
         /\ AddDocuments(texts, file_names, failAt, fault)
  /\ UNCHANGED router_vars

DoClear ==
  /\ \E fault \in ClearFaults, left \in {{}, data_dir.files} :
       ClearDocuments(fault, left)
  /\ UNCHANGED router_vars

\* the outcomes of the steps of a query that change what it does: a failing
\* step before the search, or the three steps of the LLM client
QueryOutcomes ==
  {[fault |-> "model_load", init_ok |-> TRUE, lib_ok |-> TRUE, http_ok |-> TRUE],
   [fault |-> "encode", init_ok |-> TRUE, lib_ok |-> TRUE, http_ok |-> TRUE],
   [fault |-> "none", init_ok |-> FALSE, lib_ok |-> TRUE, http_ok |-> TRUE],
   [fault |-> "none", init_ok |-> TRUE, lib_ok |-> TRUE, http_ok |-> TRUE],
   [fault |-> "none", init_ok |-> TRUE, lib_ok |-> FALSE, http_ok |-> TRUE],
   [fault |-> "none", init_ok |-> TRUE, lib_ok |-> FALSE, http_ok |-> FALSE]}

DoQuery ==
  /\ \E question \in Questions, top_k \in 1..MaxTopK :
       IF QueryNoDocs(documents, index)
       THEN Query(question, top_k, <<>>, "none", TRUE, TRUE, TRUE)
       ELSE \E ranking \in Rankings(Len(index.vectors), top_k), o \in QueryOutcomes :
              Query(question, top_k, ranking, o.fault, o.init_ok, o.lib_ok, o.http_ok)
  /\ UNCHANGED router_vars

DoRestart == (\E init_ok \in BOOLEAN : Restart(init_ok)) /\ UNCHANGED router_vars

DoSetConfig ==
  (\E c \in Configs : SetConfig(c[1], c[2])) /\ UNCHANGED router_vars

Next == DoAdd \/ DoClear \/ DoQuery \/ DoRestart \/ DoSetConfig

Spec == Init /\ [][Next]_vars

(* --------------------- chunk_text on its own: SpecChunk --------------- *)
\* word number i of a generated text
WordAt(i) == IF i % 2 = 1 THEN <<"a">> ELSE <<"b">>

\* a cleaned text of w words: single blanks between them, none around
CleanTextOf(w) == Join([i \in 1..w |-> WordAt(i)])

InitChunk ==
  /\ documents = <<>>
  /\ document_embeddings = <<>>
  /\ index = NoIndex
  /\ embedding_model = FALSE
  /\ chunk_size \in (-1)..MaxChunk
  /\ chunk_overlap \in (-2)..MaxChunk
  /\ client = FALSE
  /\ documents_file = AbsentFile
  /\ embeddings_file = AbsentFile
  /\ index_file = AbsentFile
  /\ data_dir = [exists |-> TRUE, files |-> {}]
  /\ last = NoCall
  /\ ingest_only = TRUE
  /\ faults = 0
  /\ ct_text \in {CleanTextOf(w) : w \in 0..MaxWords}
  /\ ct_out = [done |-> FALSE, raised |-> FALSE, chunks |-> <<>>]
  /\ RouterIdle /\ RaceIdle /\ LangChainIdle /\ WeatherIdle /\ AddersIdle

\* one call self.chunk_text(ct_text)
ChunkText ==
  /\ ~ct_out.done
  /\ ct_out' = [done |-> TRUE,
                raised |-> chunk_text(ct_text, chunk_size, chunk_overlap).raised,
                chunks |-> chunk_text(ct_text, chunk_size, chunk_overlap).chunks]
  /\ UNCHANGED <<documents, document_embeddings, index, embedding_model,
                 chunk_size, chunk_overlap, client, documents_file,
                 embeddings_file, index_file, data_dir, last, ingest_only, faults,
                 ct_text, router_vars, race_vars, langchain_vars, weather_vars, adder_vars>>

NextChunk == ChunkText

SpecChunk == InitChunk /\ [][NextChunk]_vars

(* ------------- request threads inside the service: SpecRace ----------- *)
\* app.run(threaded=True): one thread runs add_documents and one runs query on
\* the same RAGService, statement by statement, with no lock.

\* what SpecRace leaves alone
race_fixed == <<last, ingest_only, faults, chunk_vars, router_vars,
                langchain_vars, weather_vars, adder_vars>>

\* the settings a PUT /api/config request writes in SpecRace
RaceConfigs == {<<DefaultChunkSize, DefaultChunkOverlap>>, <<1, 0>>}

\* a statement of the ingestion ran while a query call was in progress
Overlap(q) == IF q.pc # "idle" THEN [q EXCEPT !.overlapped = TRUE] ELSE q

\* the steps of a call in order, each named once
Traced(trace, step) ==
  IF trace # <<>> /\ trace[Len(trace)] = step THEN trace ELSE Append(trace, step)

\* mutant of IndexAdd: the last row is not added
IndexAdd_AllButLast(idx, embeddings) ==
  [idx EXCEPT !.vectors = idx.vectors \o SubSeq(embeddings, 1, Len(embeddings) - 1)]

\* self.index.add(embeddings)
IndexAdd(idx, embeddings) == [idx EXCEPT !.vectors = idx.vectors \o embeddings]

InitRace == ServiceInit /\ ChunkIdle /\ RouterIdle /\ RaceIdle /\ LangChainIdle /\ WeatherIdle /\ AddersIdle

\* add_documents([text], [file_name]) is called: clean_text and chunk_text
IngCall(text, file_name) ==
  LET r == Chunked[text, <<chunk_size, chunk_overlap>>]
  IN /\ ing.pc = "idle"
     /\ ~r.raised
     /\ Len(documents) + Len(r.chunks) <= MaxDocs
     /\ ing' = [IngIdle EXCEPT !.pc = "copy", !.text = text,
                               !.file_name = file_name, !.chunks = r.chunks]
     /\ qry' = Overlap(qry)
     /\ UNCHANGED <<documents, document_embeddings, index, embedding_model,
                    chunk_size, chunk_overlap, client, documents_file,
                    embeddings_file, index_file, data_dir, observed, race_fixed>>

\* the copy of the text is written under data/
IngCopy ==
  /\ ing.pc = "copy"
  /\ data_dir' = [data_dir EXCEPT !.files = @ \cup {ing.file_name}]
  /\ ing' = [ing EXCEPT !.pc = IF ing.chunks = <<>> THEN "update" ELSE "append"]
  /\ qry' = Overlap(qry)
  /\ UNCHANGED <<documents, document_embeddings, index, embedding_model,
                 chunk_size, chunk_overlap, client, documents_file,
                 embeddings_file, index_file, observed, race_fixed>>

\* self.documents.append({...}); documents_added += 1
IngAppend ==
  /\ ing.pc = "append"
  /\ documents' = AppendChunks(documents, <<Head(ing.chunks)>>, ing.j,
                               ing.file_name, ing.text)
  /\ ing' = [ing EXCEPT !.chunks = Tail(@), !.j = @ + 1, !.added = @ + 1,
                        !.trace = Traced(@, "append"),
                        !.pc = IF Tail(ing.chunks) = <<>> THEN "update" ELSE "append"]
  /\ qry' = Overlap(qry)
  /\ UNCHANGED <<document_embeddings, index, embedding_model, chunk_size,
                 chunk_overlap, client, documents_file, embeddings_file,
                 index_file, data_dir, observed, race_fixed>>

\* update_embeddings: return on an empty collection, else load the model
IngUpdate ==
  /\ ing.pc = "update"
  /\ IF documents = <<>>
     THEN ing' = [ing EXCEPT !.pc = "save_docs"] /\ UNCHANGED embedding_model
     ELSE ing' = [ing EXCEPT !.pc = "encode"] /\ embedding_model' = TRUE
  /\ qry' = Overlap(qry)
  /\ UNCHANGED <<documents, document_embeddings, index, chunk_size,
                 chunk_overlap, client, documents_file, embeddings_file,
                 index_file, data_dir, observed, race_fixed>>

\* texts = [doc["content"] for doc in self.documents]; embeddings = encode(texts)
IngEncode ==
  /\ ing.pc = "encode"
  /\ ing' = [ing EXCEPT !.embeddings = EncodeAll(documents),
                        !.trace = Traced(@, "embed"), !.pc = "assign"]
  /\ qry' = Overlap(qry)
  /\ UNCHANGED <<documents, document_embeddings, index, embedding_model,
                 chunk_size, chunk_overlap, client, documents_file,
                 embeddings_file, index_file, data_dir, observed, race_fixed>>

\* self.document_embeddings = embeddings
IngAssign ==
  /\ ing.pc = "assign"
  /\ document_embeddings' = ing.embeddings
  /\ ing' = [ing EXCEPT !.pc = IF index.present THEN "reset" ELSE "create"]
  /\ qry' = Overlap(qry)
  /\ UNCHANGED <<documents, index, embedding_model, chunk_size, chunk_overlap,
                 client, documents_file, embeddings_file, index_file, data_dir,
                 observed, race_fixed>>

\* self.index = faiss.IndexFlatIP(dimension)
IngCreate ==
  /\ ing.pc = "create"
  /\ index' = [present |-> TRUE, vectors |-> <<>>]
  /\ ing' = [ing EXCEPT !.pc = "reset"]
  /\ qry' = Overlap(qry)
  /\ UNCHANGED <<documents, document_embeddings, embedding_model, chunk_size,
                 chunk_overlap, client, documents_file, embeddings_file,
                 index_file, data_dir, observed, race_fixed>>

\* self.index.reset()
IngReset ==
  /\ ing.pc = "reset"
  /\ index' = [index EXCEPT !.vectors = <<>>]
  /\ ing' = [ing EXCEPT !.trace = Traced(@, "reset"), !.pc = "refill"]
  /\ qry' = Overlap(qry)
  /\ UNCHANGED <<documents, document_embeddings, embedding_model, chunk_size,
                 chunk_overlap, client, documents_file, embeddings_file,
                 index_file, data_dir, observed, race_fixed>>

\* self.index.add(embeddings)
IngRefill ==
  /\ ing.pc = "refill"
  /\ index' = IndexAdd(index, ing.embeddings)
  /\ ing' = [ing EXCEPT !.trace = Traced(@, "refill"), !.pc = "save_docs"]
  /\ qry' = Overlap(qry)
  /\ UNCHANGED <<documents, document_embeddings, embedding_model, chunk_size,
                 chunk_overlap, client, documents_file, embeddings_file,
                 index_file, data_dir, observed, race_fixed>>

\* save_data: json.dump(self.documents, f)
IngSaveDocs ==
  /\ ing.pc = "save_docs"
  /\ documents_file' = FileOf(JsonDump(documents))
  /\ ing' = [ing EXCEPT !.trace = Traced(@, "write_docs"), !.pc = "save_emb"]
  /\ qry' = Overlap(qry)
  /\ UNCHANGED <<documents, document_embeddings, index, embedding_model,
                 chunk_size, chunk_overlap, client, embeddings_file, index_file,
                 data_dir, observed, race_fixed>>

\* save_data: pickle.dump(self.document_embeddings, f)
IngSaveEmb ==
  /\ ing.pc = "save_emb"
  /\ embeddings_file' = FileOf(document_embeddings)
  /\ ing' = [ing EXCEPT !.trace = Traced(@, "write_emb"), !.pc = "save_idx"]
  /\ qry' = Overlap(qry)
  /\ UNCHANGED <<documents, document_embeddings, index, embedding_model,
                 chunk_size, chunk_overlap, client, documents_file, index_file,
                 data_dir, observed, race_fixed>>

\* save_data: if self.index is not None: faiss.write_index(...)
IngSaveIdx ==
  /\ ing.pc = "save_idx"
  /\ IF index.present
     THEN /\ index_file' = FileOf(index.vectors)
          /\ ing' = [ing EXCEPT !.trace = Traced(@, "write_idx"), !.pc = "return"]
     ELSE /\ UNCHANGED index_file
          /\ ing' = [ing EXCEPT !.pc = "return"]
  /\ qry' = Overlap(qry)
  /\ UNCHANGED <<documents, document_embeddings, index, embedding_model,
                 chunk_size, chunk_overlap, client, documents_file,
                 embeddings_file, data_dir, observed, race_fixed>>

\* return documents_added
IngReturn ==
  /\ ing.pc = "return"
  /\ ing' = [ing EXCEPT !.pc = "idle", !.returned = TRUE]
  /\ qry' = Overlap(qry)
  /\ UNCHANGED <<documents, document_embeddings, index, embedding_model,
                 chunk_size, chunk_overlap, client, documents_file,
                 embeddings_file, index_file, data_dir, observed, race_fixed>>

\* query(question, top_k) is called and passes the no-documents test
QCall(top_k) ==
  /\ qry.pc = "idle"
  /\ ~QueryNoDocs(documents, index)
  /\ qry' = [QryIdle EXCEPT !.pc = "load", !.top_k = top_k,
                            !.overlapped = (ing.pc # "idle")]
  /\ UNCHANGED <<documents, document_embeddings, index, embedding_model,
                 chunk_size, chunk_overlap, client, documents_file,
                 embeddings_file, index_file, data_dir, ing, observed, race_fixed>>

\* the embedding model is loaded if it was not, and the question encoded
QLoad ==
  /\ qry.pc = "load"
  /\ embedding_model' = TRUE
  /\ qry' = [qry EXCEPT !.pc = "search"]
  /\ UNCHANGED <<documents, document_embeddings, index, chunk_size,
                 chunk_overlap, client, documents_file, embeddings_file,
                 index_file, data_dir, ing, observed, race_fixed>>

\* scores, indices = self.index.search(question_embedding, top_k)
QSearch(ranking) ==
  /\ qry.pc = "search"
  /\ ranking \in Rankings(Len(index.vectors), qry.top_k)
  /\ qry' = [qry EXCEPT !.pc = "resolve", !.n = Len(index.vectors),
                        !.positions = SearchPositions(ranking, qry.top_k)]
  /\ observed' = IF index.vectors = <<>>
                 THEN observed \cup {[kind |-> "mid_rebuild",
                                      overlapped |-> qry.overlapped]}
                 ELSE observed
  /\ UNCHANGED <<documents, document_embeddings, index, embedding_model,
                 chunk_size, chunk_overlap, client, documents_file,
                 embeddings_file, index_file, data_dir, ing, race_fixed>>

\* the loop over the search result reads self.documents
QResolve ==
  LET relevant == RelevantDocs(documents, qry.positions)
  IN /\ qry.pc = "resolve"
     /\ qry' = [qry EXCEPT !.pc = "answer",
                           !.sources = [i \in 1..Len(relevant) |-> relevant[i].id]]
     /\ observed' = IF Len(documents) > qry.n
                    THEN observed \cup {[kind |-> "resized",
                                         overlapped |-> qry.overlapped]}
                    ELSE observed
     /\ UNCHANGED <<documents, document_embeddings, index, embedding_model,
                    chunk_size, chunk_overlap, client, documents_file,
                    embeddings_file, index_file, data_dir, ing, race_fixed>>

\* generate_answer_with_llm (the LLM reachable), then return
QAnswer ==
  /\ qry.pc = "answer"
  /\ client' = IF qry.sources = <<>> THEN client
               ELSE generate_answer(client, TRUE, TRUE, TRUE).client
  /\ qry' = [qry EXCEPT !.pc = "idle"]
  /\ UNCHANGED <<documents, document_embeddings, index, embedding_model,
                 chunk_size, chunk_overlap, documents_file, embeddings_file,
                 index_file, data_dir, ing, observed, race_fixed>>

\* PUT /api/config handled by a third thread
RaceConfig(size, overlap) ==
  /\ <<size, overlap>> # <<chunk_size, chunk_overlap>>
  /\ chunk_size' = size
  /\ chunk_overlap' = overlap
  /\ UNCHANGED <<documents, document_embeddings, index, embedding_model, client,
                 documents_file, embeddings_file, index_file, data_dir, ing, qry,
                 observed, race_fixed>>

NextRace ==
  \/ \E text \in Texts, file_name \in {"f"} : IngCall(text, file_name)
  \/ IngCopy
  \/ IngAppend
  \/ IngUpdate
  \/ IngEncode
  \/ IngAssign
  \/ IngCreate
  \/ IngReset
  \/ IngRefill
  \/ IngSaveDocs
  \/ IngSaveEmb
  \/ IngSaveIdx
  \/ IngReturn
  \/ \E top_k \in 1..MaxTopK : QCall(top_k)
  \/ QLoad
  \/ \E ranking \in Rankings(Len(index.vectors), qry.top_k) : QSearch(ranking)
  \/ QResolve
  \/ QAnswer
  \/ \E c \in RaceConfigs : RaceConfig(c[1], c[2])

SpecRace == InitRace /\ [][NextRace]_vars

(* ---------------- the Flask router over the service: SpecRouter -------- *)
\* the state of the RAGService the router holds
service_vars == <<documents, document_embeddings, index, embedding_model,
                  chunk_size, chunk_overlap, client, documents_file,
                  embeddings_file, index_file, data_dir, last, ingest_only,
                  faults>>

\* the collections a previous process can have left on disk: none, or one record
StoredBefore ==
  {<<>>, AppendChunks(<<>>, <<<<"a">>>>, 0, "f", <<"a">>)}

\* RAGAPIRouter._initialize_services in a new process.  stored: what is on
\* disk; rag_ok, llm_ok: whether groq.Groq() succeeds in
\* rag_service.initialize() and in the router's own LLMService
InitRouter ==
  \E stored \in StoredBefore, rag_ok \in BOOLEAN, llm_ok \in BOOLEAN :
    LET saved == save_data(stored, EncodeAll(stored),
                           [present |-> stored # <<>>, vectors |-> EncodeAll(stored)],
                           AbsentFile, AbsentFile, AbsentFile, "none")
        dfile == IF stored = <<>> THEN AbsentFile ELSE saved.documents_file
        efile == IF stored = <<>> THEN AbsentFile ELSE saved.embeddings_file
        ifile == IF stored = <<>> THEN AbsentFile ELSE saved.index_file
        ld    == load_existing_data(<<>>, dfile, efile, ifile)
    IN /\ documents = ld.documents
       /\ document_embeddings = ld.document_embeddings
       /\ index = ld.index
       /\ embedding_model = FALSE
       /\ chunk_size = DefaultChunkSize
       /\ chunk_overlap = DefaultChunkOverlap
       /\ client = rag_ok
       /\ documents_file = dfile
       /\ embeddings_file = efile
       /\ index_file = ifile
       /\ data_dir = [exists |-> TRUE,
                      files |-> IF stored = <<>> THEN {} ELSE {"f"}]
       /\ last = [NoCall EXCEPT !.op = "initialize",
                    !.outcome = IF rag_ok THEN "returned" ELSE "raised"]
       /\ ingest_only = FALSE
       /\ faults = 0
       /\ initialized = (rag_ok /\ llm_ok)
       /\ response = NoResponse
       /\ request = NoRequest /\ config_reply = NoConfig
       /\ ChunkIdle /\ RaceIdle /\ LangChainIdle /\ WeatherIdle /\ AddersIdle

\* mutant of Unavailable: PUT and GET /api/config are served without the test
Unavailable_ConfigUnguarded(endpoint) ==
  ~initialized /\ endpoint # "/api/config"

\* `if not self.initialized: return ..., 503`, the first statement of every
\* /api handler
Unavailable(endpoint) == ~initialized

\* a handler that answers without calling the service
Answer(endpoint, status) ==
  /\ response' = [endpoint |-> endpoint, status |-> status]
  /\ request' = NoRequest
  /\ config_reply' = NoConfig
  /\ UNCHANGED <<service_vars, initialized, chunk_vars, race_vars, langchain_vars, weather_vars, adder_vars>>

\* a handler that answered after the service call made in the same step: 500
\* when the call raised, else 200
Answered(endpoint) ==
  /\ response' = [endpoint |-> endpoint,
                  status |-> IF last'.outcome = "raised" THEN "500" ELSE "200"]
  /\ UNCHANGED initialized

\* GET /health
HealthCheck == Answer("/health", "200")

\* GET /api/status
ApiStatus ==
  IF Unavailable("/api/status") THEN Answer("/api/status", "503")
  ELSE Answer("/api/status", "200")

\* the parameters of a request as the handlers read them
Request(method, params) ==
  [method |-> method, chunk_size |-> params.chunk_size,
   chunk_overlap |-> params.chunk_overlap]

\* the chunk_size and chunk_overlap members of a response
ConfigBody(size, overlap) ==
  [present |-> TRUE, chunk_size |-> size, chunk_overlap |-> overlap]

\* mutant of ParamOr: a parameter the request omits leaves the setting as it
\* is configured
ParamOr_KeepConfigured(p, default) ==
  IF p.given THEN p.value
  ELSE IF default = DefaultChunkSize THEN chunk_size ELSE chunk_overlap

\* request.form.get(name, default, type=int) and data.get(name, default)
ParamOr(p, default) == IF p.given THEN p.value ELSE default

\* the body of a response that follows a service call: the chunking
\* parameters when the call returned, the error alone when it raised
Body(size, overlap) ==
  IF last'.outcome = "raised" THEN NoConfig ELSE ConfigBody(size, overlap)

\* POST /api/documents/upload.  kind: no file, a file that is neither PDF nor
\* TXT, or a text file
ApiUploadDocument(kind, text, params, fault) ==
  LET size    == ParamOr(params.chunk_size, DefaultChunkSize)
      overlap == ParamOr(params.chunk_overlap, DefaultChunkOverlap)
  IN IF Unavailable("/api/documents/upload")
     THEN Answer("/api/documents/upload", "503")
     ELSE IF kind = "missing"
     THEN Answer("/api/documents/upload", "400")
     ELSE IF kind = "unsupported"
     THEN /\ chunk_size' = size
          /\ chunk_overlap' = overlap
          /\ response' = [endpoint |-> "/api/documents/upload", status |-> "400"]
          /\ request' = Request("POST", params)
          /\ config_reply' = NoConfig
          /\ UNCHANGED <<documents, document_embeddings, index, embedding_model,
                         client, documents_file, embeddings_file, index_file,
                         data_dir, last, ingest_only, faults, initialized,
                         chunk_vars, race_vars, langchain_vars, weather_vars,
                         adder_vars>>
     ELSE /\ AddDocumentsWith(<<text>>, <<"f">>, -1, fault, size, overlap)
          /\ Answered("/api/documents/upload")
          /\ request' = Request("POST", params)
          /\ config_reply' = Body(size, overlap)

\* POST /api/documents/text
ApiUploadText(has_text, text, params, fault) ==
  LET size    == ParamOr(params.chunk_size, DefaultChunkSize)
      overlap == ParamOr(params.chunk_overlap, DefaultChunkOverlap)
  IN IF Unavailable("/api/documents/text")
     THEN Answer("/api/documents/text", "503")
     ELSE IF ~has_text
     THEN Answer("/api/documents/text", "400")
     ELSE /\ AddDocumentsWith(<<text>>, <<"manual_input">>, -1, fault, size,
                              overlap)
          /\ Answered("/api/documents/text")
          /\ request' = Request("POST", params)
          /\ config_reply' = Body(size, overlap)

\* POST /api/query
ApiQuery(has_question, question, top_k) ==
  IF Unavailable("/api/query") THEN Answer("/api/query", "503")
  ELSE IF ~has_question THEN Answer("/api/query", "400")
  ELSE /\ IF QueryNoDocs(documents, index)
          THEN Query(question, top_k, <<>>, "none", TRUE, TRUE, TRUE)
          ELSE \E ranking \in Rankings(Len(index.vectors), top_k),
                  o \in QueryOutcomes :
                 Query(question, top_k, ranking, o.fault, o.init_ok, o.lib_ok,
                       o.http_ok)
       /\ Answered("/api/query")
       /\ request' = NoRequest
       /\ config_reply' = NoConfig

\* GET /api/documents
ApiDocuments ==
  IF Unavailable("/api/documents") THEN Answer("/api/documents", "503")
  ELSE Answer("/api/documents", "200")

\* DELETE /api/documents
ApiClear(fault, left) ==
  IF Unavailable("/api/documents") THEN Answer("/api/documents", "503")
  ELSE /\ ClearDocuments(fault, left)
       /\ Answered("/api/documents")
       /\ request' = NoRequest
       /\ config_reply' = NoConfig

\* GET /api/config
ApiConfigGet ==
  IF Unavailable("/api/config") THEN Answer("/api/config", "503")
  ELSE /\ response' = [endpoint |-> "/api/config", status |-> "200"]
       /\ request' = [NoRequest EXCEPT !.method = "GET"]
       /\ config_reply' = ConfigBody(chunk_size, chunk_overlap)
       /\ UNCHANGED <<service_vars, initialized, chunk_vars, race_vars,
                      langchain_vars, weather_vars, adder_vars>>

\* PUT /api/config.  has_data: the body is a non-empty object
ApiConfigPut(has_data, params) ==
  IF Unavailable("/api/config") THEN Answer("/api/config", "503")
  ELSE IF ~has_data THEN Answer("/api/config", "400")
  ELSE /\ chunk_size' = IF params.chunk_size.given
                         THEN params.chunk_size.value ELSE chunk_size
       /\ chunk_overlap' = IF params.chunk_overlap.given
                            THEN params.chunk_overlap.value ELSE chunk_overlap
       /\ response' = [endpoint |-> "/api/config", status |-> "200"]
       /\ request' = Request("PUT", params)
       /\ config_reply' = ConfigBody(chunk_size', chunk_overlap')
       /\ UNCHANGED <<documents, document_embeddings, index, embedding_model,
                      client, documents_file, embeddings_file, index_file,
                      data_dir, last, ingest_only, faults, initialized,
                      chunk_vars, race_vars, langchain_vars, weather_vars,
                      adder_vars>>

\* the chunking parameters of an upload: none, both, or the size alone; each
\* gives a setting of Configs
UploadParams ==
  {[chunk_size |-> Omitted, chunk_overlap |-> Omitted],
   [chunk_size |-> Given(DefaultChunkSize),
    chunk_overlap |-> Given(DefaultChunkOverlap)],
   [chunk_size |-> Given(1), chunk_overlap |-> Given(0)],
   [chunk_size |-> Given(1), chunk_overlap |-> Given(1)],
   [chunk_size |-> Given(1), chunk_overlap |-> Omitted]}

\* the members of the body of PUT /api/config: neither, the size alone, or both
PutParams ==
  {[chunk_size |-> Omitted, chunk_overlap |-> Omitted],
   [chunk_size |-> Given(1), chunk_overlap |-> Omitted],
   [chunk_size |-> Given(1), chunk_overlap |-> Given(0)]}

\* the requests: a parameter is drawn only where the handler reads it, and
\* every file operation of the service succeeds
NextRouter ==
  \/ HealthCheck
  \/ ApiStatus
  \/ \E kind \in {"missing", "unsupported", "txt"} :
       IF Unavailable("/api/documents/upload") \/ kind = "missing"
       THEN ApiUploadDocument(kind, <<>>, CHOOSE p \in UploadParams : TRUE, "none")
       ELSE \E text \in Texts, params \in UploadParams :
              ApiUploadDocument(kind, text, params, "none")
  \/ \E has_text \in BOOLEAN :
       IF Unavailable("/api/documents/text") \/ ~has_text
       THEN ApiUploadText(has_text, <<>>, CHOOSE p \in UploadParams : TRUE, "none")
       ELSE \E text \in Texts, params \in UploadParams :
              ApiUploadText(has_text, text, params, "none")
  \/ \E has_question \in BOOLEAN, question \in Questions :
       IF Unavailable("/api/query") \/ ~has_question
       THEN ApiQuery(has_question, question, 1)
       ELSE \E top_k \in 1..MaxTopK : ApiQuery(has_question, question, top_k)
  \/ ApiDocuments
  \/ ApiClear("none", {})
  \/ ApiConfigGet
  \/ \E has_data \in BOOLEAN :
       IF Unavailable("/api/config") \/ ~has_data
       THEN ApiConfigPut(has_data, CHOOSE p \in PutParams : TRUE)
       ELSE \E params \in PutParams : ApiConfigPut(has_data, params)

SpecRouter == InitRouter /\ [][NextRouter]_vars

(* ------------- the LangChain application's router: SpecLangChain ------- *)
\*   RAG_App_using_langchain/src/routers/router.py (LangChainRAGAPIRouter)
DefaultModel == "llama3-8b-8192"
NoDocumentsProcessed == "No documents processed. Please upload a PDF or text first."

\* what CharacterTextSplitter returns for the uploaded texts
ChunkLists == {<<>>, <<"c1">>, <<"c1", "c2">>}

\* the model_name parameter of an upload
ModelNames == {DefaultModel, "mixtral-8x7b-32768"}

\* what the LangChain router leaves alone
langchain_fixed == <<service_vars, chunk_vars, router_vars, race_vars,
                     weather_vars, adder_vars>>

\* LLMService(model_name): no chain yet
NewLlm(model_name) == [present |-> TRUE, model_name |-> model_name, chain |-> FALSE]

\* LangChainRAGAPIRouter._initialize_services; ok: whether the three
\* constructors succeed
InitLangChain ==
  \E ok \in BOOLEAN :
    /\ ServiceInit /\ ChunkIdle /\ RouterIdle /\ RaceIdle
    /\ WeatherIdle /\ AddersIdle
    /\ lc_initialized = ok
    /\ pdf_processed = FALSE
    /\ vector_store = NoStore
    /\ llm_service = IF ok THEN NewLlm(DefaultModel) ELSE NoLlm
    /\ lc_response = NoReply

\* return jsonify(...), status with nothing else changed
Reply(endpoint, status, error) ==
  /\ lc_response' = [NoReply EXCEPT !.endpoint = endpoint, !.status = status,
                                     !.error = error]
  /\ UNCHANGED <<lc_initialized, pdf_processed, vector_store, llm_service,
                 langchain_fixed>>

\* GET /health, /test, /info, /docs and /api/docs: answered from the router's
\* fields only
LcInfo(endpoint) == Reply(endpoint, "200", "")

\* GET /api/status
LcStatus ==
  IF ~lc_initialized THEN Reply("GET /api/status", "503", "Services not initialized")
  ELSE Reply("GET /api/status", "200", "")

\* mutant of create_vector_store: the new texts are added to the store that
\* is there
create_vector_store_Merge(store, text_chunks) ==
  [present |-> TRUE, texts |-> store.texts \o text_chunks]

\* VectorService.create_vector_store: self.vector_store = FAISS.from_texts(...)
create_vector_store(store, text_chunks) ==
  [present |-> TRUE, texts |-> text_chunks]

\* VectorService.similarity_search: the texts the search ranges over
similarity_search(store) == store.texts

\* the statements upload_pdf and upload_text share, from create_vector_store
\* on.  store_ok, llm_ok, save_ok: whether FAISS.from_texts, LLMService(...) and
\* save_local succeed
Process(endpoint, text_chunks, model_name, store_ok, llm_ok, save_ok) ==
  /\ vector_store' = IF store_ok THEN create_vector_store(vector_store, text_chunks)
                     ELSE vector_store
  /\ llm_service' = IF store_ok /\ llm_ok THEN NewLlm(model_name) ELSE llm_service
  /\ pdf_processed' = IF store_ok /\ llm_ok /\ save_ok THEN TRUE ELSE pdf_processed
  /\ lc_response' = IF store_ok /\ llm_ok /\ save_ok
                    THEN [NoReply EXCEPT !.endpoint = endpoint, !.status = "200",
                                         !.chunks = text_chunks]
                    ELSE [NoReply EXCEPT !.endpoint = endpoint, !.status = "500",
                                         !.error = "exception",
                                         !.chunks = text_chunks]
  /\ UNCHANGED <<lc_initialized, langchain_fixed>>

\* POST /api/documents/upload.  kind: no file, not a PDF, a PDF whose text
\* cannot be extracted, or a PDF
LcUploadPdf(kind, text_chunks, model_name, store_ok, llm_ok, save_ok) ==
  IF ~lc_initialized
  THEN Reply("POST /api/documents/upload", "503", "Services not initialized")
  ELSE IF kind = "missing"
  THEN Reply("POST /api/documents/upload", "400", "No file provided")
  ELSE IF kind = "not pdf"
  THEN Reply("POST /api/documents/upload", "400", "Only PDF files are supported")
  ELSE IF kind = "unreadable"
  THEN Reply("POST /api/documents/upload", "500", "exception")
  ELSE Process("POST /api/documents/upload", text_chunks, model_name,
               store_ok, llm_ok, save_ok)

\* POST /api/documents/text
LcUploadText(has_text, text_chunks, model_name, store_ok, llm_ok, save_ok) ==
  IF ~lc_initialized
  THEN Reply("POST /api/documents/text", "503", "Services not initialized")
  ELSE IF ~has_text
  THEN Reply("POST /api/documents/text", "400", "No text provided")
  ELSE Process("POST /api/documents/text", text_chunks, model_name,
               store_ok, llm_ok, save_ok)

\* /api/query and /query.  search_ok, chain_ok, run_ok: whether the
\* similarity search, load_qa_chain and chain.run succeed
LcQuery(endpoint, has_question, search_ok, chain_ok, run_ok) ==
  IF ~lc_initialized THEN Reply(endpoint, "503", "Services not initialized")
  ELSE IF ~has_question THEN Reply(endpoint, "400", "No question provided")
  ELSE IF ~pdf_processed THEN Reply(endpoint, "400", NoDocumentsProcessed)
  ELSE IF ~vector_store.present \/ ~search_ok
  THEN Reply(endpoint, "500", "exception")
  ELSE /\ llm_service' = [llm_service EXCEPT !.chain = @ \/ chain_ok]
       /\ lc_response' =
            IF (llm_service.chain \/ chain_ok) /\ run_ok
            THEN [NoReply EXCEPT !.endpoint = endpoint, !.status = "200",
                                 !.searched = similarity_search(vector_store)]
            ELSE [NoReply EXCEPT !.endpoint = endpoint, !.status = "500",
                                 !.error = "exception",
                                 !.searched = similarity_search(vector_store)]
       /\ UNCHANGED <<lc_initialized, pdf_processed, vector_store, langchain_fixed>>

\* the routes written after the return statement of _get_api_documentation
\* (PUT /api/model, GET and PUT /api/config, DELETE /api/documents) are never
\* registered: Flask answers them with the 404 handler
LcNotRegistered(endpoint) == Reply(endpoint, "404", "Endpoint not found")

NextLangChain ==
  \/ \E endpoint \in {"GET /health", "GET /test", "GET /info", "GET /docs",
                      "GET /api/docs"} : LcInfo(endpoint)
  \/ LcStatus
  \/ \E kind \in {"missing", "not pdf", "unreadable", "pdf"},
        text_chunks \in ChunkLists, model_name \in ModelNames,
        store_ok \in BOOLEAN, llm_ok \in BOOLEAN, save_ok \in BOOLEAN :
       LcUploadPdf(kind, text_chunks, model_name, store_ok, llm_ok, save_ok)
  \/ \E has_text \in BOOLEAN, text_chunks \in ChunkLists,
        model_name \in ModelNames, store_ok \in BOOLEAN, llm_ok \in BOOLEAN,
        save_ok \in BOOLEAN :
       LcUploadText(has_text, text_chunks, model_name, store_ok, llm_ok, save_ok)
  \/ \E endpoint \in {"/api/query", "/query"}, has_question \in BOOLEAN,
        search_ok \in BOOLEAN, chain_ok \in BOOLEAN, run_ok \in BOOLEAN :
       LcQuery(endpoint, has_question, search_ok, chain_ok, run_ok)
  \/ \E endpoint \in {"PUT /api/model", "GET /api/config", "PUT /api/config",
                      "DELETE /api/documents"} : LcNotRegistered(endpoint)

SpecLangChain == InitLangChain /\ [][NextLangChain]_vars

(* ------------- the weather page's session: SpecWeather ----------------- *)
\*   Weather_info_bot_using_LangGraph/main.py and src/langgraph_app.py.
\* One action is one run of the Streamlit script: a run a widget starts, or
\* the run st.rerun() starts.

\* entries of conversation_history in one behaviour
MaxHistory == 3

\* langgraph.graph.END
END == "__end__"

\* the sidebar's city buttons (the first two of the six)
popular_cities == {<<"C", "h", "e", "n", "n", "a", "i">>,
                   <<"D", "e", "l", "h", "i">>}

\* what the user types into the text box: nothing, a blank, a city, a city
\* followed by a blank
TypedInputs == {<<>>, <<" ">>, <<"a">>, <<"b", " ">>}

\* the string get_weather_real returns for a city it finds
WeatherReport == "Temperature: <t> C, Wind: <w> km/h, Weather code: <c>"

\* get_weather_real(city): raises (no network), returns None, or the report
LookupOutcomes ==
  {[raised |-> TRUE, weather |-> ""],
   [raised |-> FALSE, weather |-> ""],
   [raised |-> FALSE, weather |-> WeatherReport]}

\* str.upper() and str.lower() of one character of the typed alphabet
Upper(c) == IF c = "a" THEN "A" ELSE IF c = "b" THEN "B" ELSE c
Lower(c) == IF c = "A" THEN "a" ELSE IF c = "B" THEN "b" ELSE c

RECURSIVE TitleFrom(_, _)
\* str.title() from a position on: the first letter of a word in upper case,
\* the others in lower case
TitleFrom(t, first) ==
  IF t = <<>> THEN <<>>
  ELSE <<IF first THEN Upper(Head(t)) ELSE Lower(Head(t))>>
       \o TitleFrom(Tail(t), Head(t) \in WhiteSpace \cup Punct)

\* str.title()
Title(t) == TitleFrom(t, TRUE)

\* memory.set("last_location", city.title()); memory.set("last_weather", weather)
MemorySet(city, weather) ==
  [set |-> TRUE, last_location |-> Title(city), last_weather |-> weather]

\* ask_city_node
ask_city_node(st) ==
  [user_input |-> st.user_input,
   message |-> [text |-> "Enter a city name (e.g., ...):", city |-> <<>>],
   next |-> "validate_city"]

\* validate_city_node; weather: what get_weather_real returns when it is called
validate_city_node(st, weather) ==
  LET city == Strip(st.user_input)
  IN IF city = <<>>
     THEN [user_input |-> st.user_input,
           message |-> [text |-> "City name cannot be empty.", city |-> <<>>],
           next |-> "retry"]
     ELSE IF weather = ""
     THEN [user_input |-> st.user_input,
           message |-> [text |-> "Sorry, not found or weather unavailable.",
                        city |-> city],
           next |-> "retry"]
     ELSE [user_input |-> st.user_input,
           message |-> [text |-> "", city |-> city],
           next |-> "respond"]

\* retry_node
retry_node(st) ==
  [user_input |-> st.user_input,
   message |-> [text |-> "Please enter a valid city (e.g., ...):", city |-> <<>>],
   next |-> "validate_city"]

\* get_friendly_weather_response: the LLM's words, or the plain report with
\* the error when the LLM call raises
get_friendly_weather_response(city, weather, llm_ok) ==
  [friendly |-> llm_ok, city |-> city, weather |-> weather]

\* respond_node
respond_node(st, mem, llm_ok) ==
  [user_input |-> st.user_input,
   message |-> get_friendly_weather_response(
                 IF mem.set THEN mem.last_location ELSE <<"U", "n", "k", "n", "o", "w", "n">>,
                 IF mem.set THEN mem.last_weather ELSE "No data", llm_ok),
   next |-> END]

\* mutant of validate_city_and_get_weather: the result of the lookup is not
\* tested
validate_city_and_get_weather_NoWeatherTest(city, lk, mem) ==
  IF Strip(city) = <<>>
  THEN [raised |-> FALSE, is_valid |-> FALSE, lookup |-> "not called",
        weather |-> "", memory |-> mem]
  ELSE IF lk.raised
  THEN [raised |-> TRUE, is_valid |-> FALSE, lookup |-> "raised",
        weather |-> "", memory |-> mem]
  ELSE [raised |-> FALSE, is_valid |-> TRUE,
        lookup |-> IF lk.weather = "" THEN "none" ELSE "found",
        weather |-> lk.weather, memory |-> MemorySet(city, lk.weather)]

\* validate_city_and_get_weather(city); lk: what get_weather_real does
validate_city_and_get_weather(city, lk, mem) ==
  IF Strip(city) = <<>>
  THEN [raised |-> FALSE, is_valid |-> FALSE, lookup |-> "not called",
        weather |-> "", memory |-> mem]
  ELSE IF lk.raised
  THEN [raised |-> TRUE, is_valid |-> FALSE, lookup |-> "raised",
        weather |-> "", memory |-> mem]
  ELSE IF lk.weather = ""
  THEN [raised |-> FALSE, is_valid |-> FALSE, lookup |-> "none",
        weather |-> "", memory |-> mem]
  ELSE [raised |-> FALSE, is_valid |-> TRUE, lookup |-> "found",
        weather |-> lk.weather, memory |-> MemorySet(city, lk.weather)]

\* what SpecWeather leaves alone
weather_fixed == <<service_vars, chunk_vars, router_vars, race_vars,
                   langchain_vars, adder_vars>>

\* the keys the script sets when "state" is not in st.session_state
NewSession == [present |-> TRUE, node |-> "ask_city", user_input |-> <<>>,
               message |-> "", next |-> "ask_city",
               conversation_history |-> <<>>]

InitWeather ==
  /\ ServiceInit /\ ChunkIdle /\ RouterIdle /\ RaceIdle /\ LangChainIdle
  /\ WeatherIdle /\ AddersIdle

\* a page is on screen: the script has run to its end and no rerun is due
Rendered == session_state.present /\ ~rerun

\* a run no widget started, ending in the input form of ask_city or retry;
\* it sets up the session first when there is none
RunForm ==
  LET ss == IF session_state.present THEN session_state ELSE NewSession
  IN /\ rerun \/ ~session_state.present
     /\ ss.node \in {"ask_city", "retry"}
     /\ session_state' = ss
     /\ rerun' = FALSE
     /\ UNCHANGED <<memory, validated, weather_fixed>>

\* the sidebar's Reset Session button: st.session_state.clear(); st.rerun()
ClickReset ==
  /\ Rendered
  /\ session_state' = NoSession
  /\ rerun' = TRUE
  /\ UNCHANGED <<memory, validated, weather_fixed>>

\* one of the sidebar's city buttons
ClickCity(city) ==
  /\ Rendered
  /\ session_state' = [session_state EXCEPT !.user_input = city,
                         !.message = "", !.next = "ask_city",
                         !.node = "validate_city"]
  /\ rerun' = TRUE
  /\ UNCHANGED <<memory, validated, weather_fixed>>

\* the Get Weather button of the ask_city and retry forms
ClickGetWeather(user_input) ==
  /\ Rendered
  /\ session_state.node \in {"ask_city", "retry"}
  /\ IF user_input # <<>>
     THEN /\ Len(session_state.conversation_history) < MaxHistory
          /\ session_state' =
               [session_state EXCEPT !.user_input = user_input,
                  !.node = "validate_city",
                  !.conversation_history =
                     Append(@, [role |-> "user", text |-> user_input,
                                friendly |-> FALSE])]
          /\ rerun' = TRUE
     ELSE UNCHANGED <<session_state, rerun>>
  /\ UNCHANGED <<memory, validated, weather_fixed>>

\* the run st.rerun() starts with node = "validate_city"; an exception of the
\* lookup ends the run with the node unchanged
RunValidate(lk) ==
  LET city == Strip(session_state.user_input)
      r    == validate_city_and_get_weather(city, lk, memory)
  IN /\ session_state.present /\ rerun
     /\ session_state.node = "validate_city"
     /\ validated' = [city |-> city, lookup |-> r.lookup, weather |-> r.weather,
                      is_valid |-> r.is_valid]
     /\ memory' = r.memory
     /\ IF r.raised
        THEN session_state' = session_state /\ rerun' = FALSE
        ELSE /\ session_state' =
                  [session_state EXCEPT
                     !.node = IF r.is_valid THEN "respond" ELSE "retry"]
             /\ rerun' = TRUE
     /\ UNCHANGED weather_fixed

\* a run with node = "respond" that no widget started
RunRespond(llm_ok) ==
  LET last_city    == IF memory.set THEN memory.last_location
                      ELSE <<"U", "n", "k", "n", "o", "w", "n">>
      last_weather == IF memory.set THEN memory.last_weather ELSE "No data"
      msg == get_friendly_weather_response(last_city, last_weather, llm_ok)
  IN /\ session_state.present /\ rerun
     /\ session_state.node = "respond"
     /\ Len(session_state.conversation_history) < MaxHistory
     /\ session_state' =
          [session_state EXCEPT !.conversation_history =
             Append(@, [role |-> "bot", text |-> msg.city,
                        friendly |-> msg.friendly])]
     /\ rerun' = FALSE
     /\ UNCHANGED <<memory, validated, weather_fixed>>

\* the New Query button of the respond page: the run appends the answer
\* again, then empties the history
ClickNewQuery ==
  /\ Rendered
  /\ session_state.node = "respond"
  /\ session_state' = [session_state EXCEPT !.node = "ask_city",
                         !.conversation_history = <<>>]
  /\ rerun' = TRUE
  /\ UNCHANGED <<memory, validated, weather_fixed>>

NextWeather ==
  \/ RunForm
  \/ ClickReset
  \/ \E city \in popular_cities : ClickCity(city)
  \/ \E user_input \in TypedInputs : ClickGetWeather(user_input)
  \/ \E lk \in LookupOutcomes : RunValidate(lk)
  \/ \E llm_ok \in BOOLEAN : RunRespond(llm_ok)
  \/ ClickNewQuery

SpecWeather == InitWeather /\ [][NextWeather]_vars

(* -------- two add_documents calls on one service: SpecAdders ----------- *)
\* app.run(threaded=True): two request threads run add_documents([text])
\* on the same RAGService, statement by statement, with no lock.

\* what SpecAdders leaves alone
adder_fixed == <<chunk_size, chunk_overlap, client, last, ingest_only, faults,
                 chunk_vars, router_vars, race_vars, langchain_vars,
                 weather_vars>>

InitAdders ==
  /\ ServiceInit /\ ChunkIdle /\ RouterIdle /\ RaceIdle /\ LangChainIdle
  /\ WeatherIdle /\ AddersIdle

\* thread t enters add_documents([text], [file_name]): clean_text, chunk_text
\* and the copy of the text under data/
AdCall(t, text, file_name) ==
  LET r == Chunked[text, <<chunk_size, chunk_overlap>>]
      running == {u \in 1..2 : adders[u].pc # "idle"}
      pending == IF running = {} THEN 0
                 ELSE Len(adders[CHOOSE u \in running : TRUE].chunks)
  IN /\ adders[t].pc = "idle"
     /\ ~r.raised
     /\ Len(documents) + pending + Len(r.chunks) <= MaxDocs
     /\ data_dir' = [data_dir EXCEPT !.files = @ \cup {file_name}]
     /\ adders' = [adders EXCEPT ![t] =
          [AdderIdle EXCEPT !.chunks = r.chunks, !.file_name = file_name,
             !.text = text,
             !.pc = IF r.chunks = <<>> THEN "update" ELSE "append"]]
     /\ UNCHANGED <<documents, document_embeddings, index, embedding_model,
                    documents_file, embeddings_file, index_file, adder_fixed>>

\* self.documents.append({...}) by thread t
AdAppend(t) ==
  LET a == adders[t]
  IN /\ a.pc = "append"
     /\ documents' = AppendChunks(documents, <<Head(a.chunks)>>, a.j,
                                  a.file_name, a.text)
     /\ adders' = [adders EXCEPT ![t] =
          [a EXCEPT !.chunks = Tail(@), !.j = @ + 1,
                    !.pc = IF Tail(a.chunks) = <<>> THEN "update" ELSE "append"]]
     /\ UNCHANGED <<document_embeddings, index, embedding_model,
                    documents_file, embeddings_file, index_file, data_dir,
                    adder_fixed>>

\* update_embeddings: return on an empty collection, else load the model
AdUpdate(t) ==
  /\ adders[t].pc = "update"
  /\ IF documents = <<>>
     THEN /\ adders' = [adders EXCEPT ![t].pc = "save"]
          /\ UNCHANGED embedding_model
     ELSE /\ adders' = [adders EXCEPT ![t].pc = "encode"]
          /\ embedding_model' = TRUE
  /\ UNCHANGED <<documents, document_embeddings, index, documents_file,
                 embeddings_file, index_file, data_dir, adder_fixed>>

\* texts = [doc["content"] for doc in self.documents]; embeddings = encode(texts)
AdEncode(t) ==
  /\ adders[t].pc = "encode"
  /\ adders' = [adders EXCEPT ![t].embeddings = EncodeAll(documents),
                              ![t].pc = "assign"]
  /\ UNCHANGED <<documents, document_embeddings, index, embedding_model,
                 documents_file, embeddings_file, index_file, data_dir,
                 adder_fixed>>

\* self.document_embeddings = embeddings; the test self.index is None
AdAssign(t) ==
  /\ adders[t].pc = "assign"
  /\ document_embeddings' = adders[t].embeddings
  /\ adders' = [adders EXCEPT ![t].pc = IF index.present THEN "reset" ELSE "create"]
  /\ UNCHANGED <<documents, index, embedding_model, documents_file,
                 embeddings_file, index_file, data_dir, adder_fixed>>

\* self.index = faiss.IndexFlatIP(dimension)
AdCreate(t) ==
  /\ adders[t].pc = "create"
  /\ index' = [present |-> TRUE, vectors |-> <<>>]
  /\ adders' = [adders EXCEPT ![t].pc = "reset"]
  /\ UNCHANGED <<documents, document_embeddings, embedding_model,
                 documents_file, embeddings_file, index_file, data_dir,
                 adder_fixed>>

\* self.index.reset()
AdReset(t) ==
  /\ adders[t].pc = "reset"
  /\ index' = [index EXCEPT !.vectors = <<>>]
  /\ adders' = [adders EXCEPT ![t].pc = "refill"]
  /\ UNCHANGED <<documents, document_embeddings, embedding_model,
                 documents_file, embeddings_file, index_file, data_dir,
                 adder_fixed>>

\* self.index.add(embeddings)
AdRefill(t) ==
  /\ adders[t].pc = "refill"
  /\ index' = IndexAdd(index, adders[t].embeddings)
  /\ adders' = [adders EXCEPT ![t].pc = "save"]
  /\ UNCHANGED <<documents, document_embeddings, embedding_model,
                 documents_file, embeddings_file, index_file, data_dir,
                 adder_fixed>>

\* save_data (every write succeeding) and return documents_added
AdSave(t) ==
  LET sav == save_data(documents, document_embeddings, index, documents_file,
                       embeddings_file, index_file, "none")
  IN /\ adders[t].pc = "save"
     /\ documents_file' = sav.documents_file
     /\ embeddings_file' = sav.embeddings_file
     /\ index_file' = sav.index_file
     /\ adders' = [adders EXCEPT ![t].pc = "idle", ![t].returned = TRUE]
     /\ UNCHANGED <<documents, document_embeddings, index, embedding_model,
                    data_dir, adder_fixed>>

NextAdders ==
  \/ \E t \in 1..2, text \in Texts, file_name \in {"f", "g"} :
       AdCall(t, text, file_name)
  \/ \E t \in 1..2 : AdAppend(t)
  \/ \E t \in 1..2 : AdUpdate(t)
  \/ \E t \in 1..2 : AdEncode(t)
  \/ \E t \in 1..2 : AdAssign(t)
  \/ \E t \in 1..2 : AdCreate(t)
  \/ \E t \in 1..2 : AdReset(t)
  \/ \E t \in 1..2 : AdRefill(t)
  \/ \E t \in 1..2 : AdSave(t)

SpecAdders == InitAdders /\ [][NextAdders]_vars

(* ====================================================================== *)
(*                              the claims                                *)
(* ====================================================================== *)
AddReturned == last.op = "add" /\ last.outcome = "returned"
ClearReturned == last.op = "clear" /\ last.outcome = "returned"

\* C1: after every add_documents call that returns, the number of chunk
\* records, the number of rows of the embedding matrix and the number of
\* vectors in the index (None counting as 0) are equal.
C1_IndexAlignment ==
  AddReturned =>
    /\ Len(documents) = Len(document_embeddings)
    /\ Len(document_embeddings) = IndexSize(index)

\* C2: after every add_documents or clear_documents call that returns, the
\* documents file holds exactly the in-memory collection, record for record
\* in the same order (after clear: no file and an empty collection).
C2_DiskMirrorsMemory ==
  /\ AddReturned =>
       /\ documents_file.state = "ok"
       /\ JsonLoad(documents_file.data) = documents
  /\ ClearReturned => ~Exists(documents_file) /\ documents = <<>>

\* C3: add_documents never returns a chunk count to its caller when the
\* persistence write failed.
C3_NoReturnAfterFailedSave == ~(AddReturned /\ ~last.save_ok)

\* C4: generate_answer never raises, whatever the outcomes of the lazy client
\* initialisation, the client-library call and the HTTP call; when both paths
\* fail the string it returns is the apology text.
C4_GenerateAnswerNeverRaises ==
  /\ last.llm # "raised"
  /\ (last.llm = "returned" /\ last.lib_failed /\ last.http_failed)
       => last.answer = ApologyMsg

\* C5: a query on a store whose collection is empty returns the fixed
\* no-documents message, no sources and confidence 0.0.
C5_QueryOnEmptyCollection ==
  (last.op = "query" /\ documents = <<>>) =>
    /\ last.outcome = "returned"
    /\ last.answer = NoDocsMsg
    /\ last.sources = <<>>
    /\ last.confidence = "0.0"

\* C5 witness: a query answered on a collection left empty by the ingestion of
\* a text that produced no chunk (its copy is under data/, the saved file is empty)
C5_Witness ==
  /\ last.op = "query" /\ documents = <<>>
  /\ data_dir.files # {} /\ documents_file = FileOf(<<>>)

\* C6: after clear_documents returns, the collection and the embedding matrix
\* are empty, the index is None, none of the three files exists, data/ exists
\* and is empty, and a restore performed next yields the empty store.
C6_ClearLeavesNothing ==
  ClearReturned =>
    /\ documents = <<>> /\ document_embeddings = <<>> /\ index = NoIndex
    /\ ~Exists(documents_file) /\ ~Exists(embeddings_file) /\ ~Exists(index_file)
    /\ data_dir.exists /\ data_dir.files = {}
    /\ load_existing_data(documents, documents_file, embeddings_file, index_file)
         = [documents |-> <<>>, document_embeddings |-> <<>>, index |-> NoIndex]

\* C6 witness: clear_documents has returned in a process whose embedding model
\* is loaded, that is, after an ingestion that left chunks behind
C6_Witness == ClearReturned /\ embedding_model

\* C7: clear_documents is idempotent: a second call right after one that
\* returned raises nothing and leaves memory and disk as the first left them.
C7_ClearIdempotent ==
  [][(ClearReturned /\ DoClear) =>
       /\ last'.outcome = "returned"
       /\ <<documents, document_embeddings, index, embedding_model, chunk_size,
            chunk_overlap, client, documents_file, embeddings_file, index_file,
            data_dir>>' =
          <<documents, document_embeddings, index, embedding_model, chunk_size,
            chunk_overlap, client, documents_file, embeddings_file, index_file,
            data_dir>>]_vars

\* C7 witness: the second of two clear_documents calls in a row has returned
C7_Witness == ClearReturned /\ last.twice

\* C8: for every state reached by successful ingestions, save_data followed by
\* load_existing_data on a fresh service gives back the same records in the
\* same order, the same embedding matrix and an index with one vector per record.
C8_PersistRestoreRoundTrip ==
  (ingest_only /\ AddReturned) =>
    LET sv == save_data(documents, document_embeddings, index, documents_file,
                        embeddings_file, index_file, "none")
        ld == load_existing_data(<<>>, sv.documents_file, sv.embeddings_file,
                                 sv.index_file)
    IN /\ ld.documents = documents
       /\ ld.document_embeddings = document_embeddings
       /\ IndexSize(ld.index) = Len(documents)

\* C8 witness: two records ingested by returned add_documents calls only
C8_Witness == ingest_only /\ AddReturned /\ Len(documents) = 2

\* C9: between operations the number of rows of the embedding matrix equals
\* the number of chunk records.
C9_RowsEqualRecords == Len(document_embeddings) = Len(documents)

\* ceil(w / s) for s > 0
CeilDiv(w, s) == (w + s - 1) \div s

\* C10 as stated: for every configuration with stride chunk_size -
\* chunk_overlap > 0, chunk_text returns ceil(W / stride) chunks for a cleaned
\* text of W words.
C10_ChunkCountAnyPositiveStride ==
  (ct_out.done /\ chunk_size - chunk_overlap > 0) =>
    /\ ~ct_out.raised
    /\ Len(ct_out.chunks)
         = CeilDiv(Len(Split(ct_text)), chunk_size - chunk_overlap)

\* C10 amended: for every configuration with chunk_size >= 1 and stride
\* chunk_size - chunk_overlap > 0, chunk_text returns ceil(W / stride) chunks
\* for a cleaned text of W words.
C10_ChunkCount ==
  (ct_out.done /\ chunk_size >= 1 /\ chunk_size - chunk_overlap > 0) =>
    /\ ~ct_out.raised
    /\ Len(ct_out.chunks)
         = CeilDiv(Len(Split(ct_text)), chunk_size - chunk_overlap)

\* C10 witness: the 8-word text chunked with chunk_size 5 and overlap 0
C10_Witness ==
  /\ ct_out.done /\ Len(Split(ct_text)) = 8
  /\ chunk_size = 5 /\ chunk_overlap = 0 /\ Len(ct_out.chunks) = 2

\* the smaller of two integers
Min(a, b) == IF a < b THEN a ELSE b

\* C11 as stated: for every configuration with positive stride, every chunk
\* except the last has exactly chunk_size words, and a text of fewer than
\* chunk_size words gives a single chunk holding all of them.
C11_AllButLastFull ==
  (ct_out.done /\ chunk_size - chunk_overlap > 0) =>
    /\ \A k \in 1..(Len(ct_out.chunks) - 1) :
         Len(Split(ct_out.chunks[k])) = chunk_size
    /\ (Len(Split(ct_text)) >= 1 /\ Len(Split(ct_text)) < chunk_size) =>
         /\ Len(ct_out.chunks) = 1
         /\ Len(Split(ct_out.chunks[1])) = Len(Split(ct_text))

\* C11 amended: for chunk_size >= 1 and stride s = chunk_size - chunk_overlap
\* > 0, chunk number k (from 0) of a text of W words holds
\* min(chunk_size, W - k*s) words: chunk_size words unless fewer remain from
\* its start.
C11_ChunkWords ==
  (ct_out.done /\ chunk_size >= 1 /\ chunk_size - chunk_overlap > 0) =>
    \A k \in 1..Len(ct_out.chunks) :
      Len(Split(ct_out.chunks[k]))
        = Min(chunk_size,
              Len(Split(ct_text)) - (k - 1) * (chunk_size - chunk_overlap))

\* C11 witness: 8 words, chunk_size 5, overlap 3: four chunks, of 5, 5, 4 and
\* 2 words
C11_Witness ==
  /\ ct_out.done /\ Len(Split(ct_text)) = 8
  /\ chunk_size = 5 /\ chunk_overlap = 3 /\ Len(ct_out.chunks) = 4
  /\ Len(Split(ct_out.chunks[3])) = 4

\* C12: an ingestion run with a stride chunk_size - chunk_overlap of zero or
\* less never returns normally: it raises, and appends no chunk record.
C12_NonPositiveStrideRaises ==
  (last.op = "add" /\ last.stride <= 0) =>
    /\ last.outcome = "raised"
    /\ Len(documents) = last.before

\* a sequence that begins with the whole of another
IsPrefix(a, b) == Len(a) <= Len(b) /\ SubSeq(b, 1, Len(a)) = a

\* C14: chunk records are append-only: every call on a running service keeps
\* each record at its position with its id, content and file_name, except
\* clear_documents, which removes them all at once.
C14_AppendOnly ==
  [][\/ last'.op = "initialize"
     \/ IsPrefix(documents, documents')
     \/ (last'.op = "clear" /\ documents' = <<>>)]_vars

\* C14 witness: a second ingestion has returned and the record of the first
\* is still at the head of the collection
C14_Witness ==
  /\ AddReturned /\ last.before = 1 /\ last.count = 1
  /\ Len(documents) = 2 /\ documents[1].id = <<0, 0>>

\* C15: add_documents returns the number of chunk records it created: after a
\* call that returns, the collection is as long as before the call plus the
\* returned count.
C15_ReturnsChunksCreated ==
  AddReturned => Len(documents) = last.before + last.count

\* C15 witness: one call with two texts, the first giving no chunk and the
\* second giving two, has returned 2
C15_Witness ==
  /\ AddReturned /\ last.count = 2 /\ last.before = 0
  /\ Cardinality(data_dir.files) = 2

\* C17: generate_answer makes the HTTP call only after its client-library call
\* failed, at most once, never calls the library again, and makes no HTTP
\* call when the library call succeeded.
C17_FallbackOrder ==
  last.llm # "not called" =>
    /\ last.http_calls <= 1
    /\ last.lib_calls <= 1
    /\ last.http_calls = 1 => (last.lib_calls = 1 /\ last.lib_failed)
    /\ (last.lib_calls = 1 /\ ~last.lib_failed) => last.http_calls = 0

\* C17 witness: the library call failed and the HTTP call answered
C17_Witness ==
  /\ last.llm = "returned" /\ last.lib_failed /\ last.http_calls = 1
  /\ last.answer = LlmText

\* C19: construction and initialize leave the embedding model unloaded; it is
\* loaded only by an ingestion that leaves the collection non-empty or by a
\* query on a non-empty collection with an index; once loaded it stays loaded
\* for the life of the process, clear_documents included.
C19_LazyEmbeddingModel ==
  [][/\ last'.op \in {"construct", "initialize"} => ~embedding_model'
     /\ (~embedding_model /\ embedding_model') =>
          \/ last'.op = "add" /\ documents' # <<>>
          \/ last'.op = "query" /\ documents # <<>> /\ index.present
     /\ (embedding_model /\ last'.op # "initialize") => embedding_model']_vars

\* C19 witness: a query answered on the empty collection by a process whose
\* model an earlier ingestion loaded and a clear left loaded
C19_Witness ==
  /\ embedding_model /\ last.op = "query" /\ last.answer = NoDocsMsg
  /\ ~Exists(documents_file)

\* C13: a query that runs while an ingestion runs can see an inconsistent
\* (collection, index) pair: an index searched between its reset and its
\* refill, or positions resolved against a collection longer than the index
\* searched; a query that no statement of an ingestion overlaps never does.
C13_InconsistentOnlyWhenOverlapped == \A o \in observed : o.overlapped

\* C13 witness: queries have seen both kinds of inconsistent pair
C13_Witness ==
  {o.kind : o \in observed} = {"mid_rebuild", "resized"}

\* C16: every add_documents call that returns has appended its chunks, then
\* re-embedded the collection, then reset and refilled the index, then written
\* the documents, the embeddings and the index file, in this order.
C16_StepOrder ==
  (ing.pc = "idle" /\ ing.returned) =>
    SelectSeq(ing.trace, LAMBDA st : st # "append")
      = <<"embed", "reset", "refill", "write_docs", "write_emb", "write_idx">>
    /\ (ing.added > 0 => ing.trace[1] = "append")

\* C18: when initialisation failed at startup, for the whole life of the
\* process every /api endpoint answers 503 without calling the service or
\* changing any state, and /health answers 200.
C18_UninitializedAnswers503 ==
  /\ [](~initialized =>
          \/ response = NoResponse
          \/ response = [endpoint |-> "/health", status |-> "200"]
          \/ response.endpoint # "/health" /\ response.status = "503")
  /\ [][~initialized => (~initialized' /\ UNCHANGED service_vars)]_vars

\* C18 witness: a process that failed to initialise over a stored record has
\* answered 503 to a query
C18_Witness ==
  /\ ~initialized /\ documents # <<>>
  /\ response = [endpoint |-> "/api/query", status |-> "503"]

\* C20: in the LangChain application DELETE /api/documents clears the
\* documents and resets the system: once it is answered pdf_processed is
\* false, and while pdf_processed is false every query that carries a question
\* is rejected with the no-documents-processed error.
C20_DeleteResets ==
  /\ [](lc_response.endpoint = "DELETE /api/documents" => ~pdf_processed)
  /\ [][(lc_initialized /\ ~pdf_processed /\ lc_response' # lc_response
          /\ lc_response'.endpoint \in {"/api/query", "/query"}
          /\ lc_response'.error # "No question provided")
        => lc_response'.error = NoDocumentsProcessed]_vars

\* the state dictionary of the session, as the node functions take it
SessionDict(ss) ==
  [user_input |-> ss.user_input, message |-> ss.message, next |-> ss.next]

\* C21: the weather session has four nodes and branches only at validate_city:
\* respond is entered only from validate_city after a non-empty city whose
\* lookup succeeded, retry only from validate_city after an empty city or a
\* failed lookup, from ask_city and retry the only successor other than a
\* session reset is validate_city, and these transitions are the ones the
\* node functions name in their next field.
C21_ValidOrRetry ==
  [][LET n  == session_state.node
         m  == session_state'.node
         st == SessionDict(session_state)
     IN /\ session_state'.present =>
             m \in {"ask_city", "validate_city", "retry", "respond"}
        /\ (m = "respond" /\ n # "respond") =>
             /\ n = "validate_city"
             /\ validated'.city = Strip(session_state.user_input)
             /\ validated'.city # <<>> /\ validated'.lookup = "found"
             /\ m = validate_city_node(st, validated'.weather).next
        /\ (m = "retry" /\ n # "retry") =>
             /\ n = "validate_city"
             /\ validated'.city = Strip(session_state.user_input)
             /\ validated'.city = <<>> \/ validated'.lookup = "none"
             /\ m = validate_city_node(st, validated'.weather).next
        /\ (n = "ask_city" /\ m # n /\ session_state'.present) =>
             m = "validate_city" /\ m = ask_city_node(st).next
        /\ (n = "retry" /\ m # n /\ session_state'.present) =>
             m = "validate_city" /\ m = retry_node(st).next]_vars

\* C21 witness: the answer is on screen after a city that was not found and a
\* second one that was: ask_city, validate_city, retry, validate_city, respond
C21_Witness ==
  /\ Rendered /\ session_state.node = "respond"
  /\ validated.lookup = "found"
  /\ Len(session_state.conversation_history) = 3
  /\ session_state.conversation_history[3].role = "bot"

\* C22: when two add_documents calls run at the same time on one store and
\* both return, the collection, the embedding matrix and the index have the
\* same length once both have returned, whatever the interleaving.
C22_AlignedAfterBoth ==
  (\A t \in 1..2 : adders[t].pc = "idle" /\ adders[t].returned) =>
    /\ Len(documents) = Len(document_embeddings)
    /\ Len(document_embeddings) = IndexSize(index)

\* C23: when add_documents raises there is no rollback: the chunk records it
\* appended before the failure stay in the collection behind the earlier
\* ones, the three files on disk keep their previous content, and the copies
\* of the texts written under data/ remain.
C23_NoRollback ==
  [][(/\ last'.op = "add" /\ last'.outcome = "raised"
      /\ <<last, faults, documents, data_dir>>'
           # <<last, faults, documents, data_dir>>) =>
       /\ IsPrefix(documents, documents')
       /\ Len(documents') = Len(documents) + last'.added
       /\ documents_file' = documents_file
       /\ embeddings_file' = embeddings_file
       /\ index_file' = index_file
       /\ data_dir.files \subseteq data_dir'.files
       /\ last'.added > 0 => data_dir'.files # {}]_vars

\* C23 witness: a call that appended one record has raised over a store whose
\* documents file holds the one record saved before
C23_Witness ==
  /\ last.op = "add" /\ last.outcome = "raised" /\ last.added = 1
  /\ Len(documents) = 2
  /\ documents_file.state = "ok"
  /\ JsonLoad(documents_file.data) = SubSeq(documents, 1, 1)

\* C24: a query on a non-empty store returns at most min(top_k, number of
\* chunks) source ids, all distinct, each the id of a chunk the index ranked;
\* the -1 placeholders the index returns when top_k exceeds the number of
\* stored vectors give no source.
C24_SourcesAreRanked ==
  (last.op = "query" /\ last.llm = "returned") =>
    /\ Len(last.sources) <= Min(last.top_k, Len(documents))
    /\ \A i, j \in 1..Len(last.sources) :
         i # j => last.sources[i] # last.sources[j]
    /\ \A i \in 1..Len(last.sources) :
         \E k \in 1..Len(last.ranking) :
           documents[last.ranking[k] + 1].id = last.sources[i]

\* C25: no two chunk records of the collection have the same id: each id
\* holds the position the record was appended at, and the record is still
\* there.
C25_DistinctIds ==
  /\ \A i, j \in 1..Len(documents) :
       i # j => documents[i].id # documents[j].id
  /\ \A i \in 1..Len(documents) : documents[i].id[1] = i - 1

\* C25 witness: two records appended by two calls, the second after the store
\* had been cleared or restarted or a call had raised
C25_Witness ==
  /\ AddReturned /\ ~ingest_only /\ last.before = 1 /\ last.count = 1
  /\ documents[1].id = <<0, 0>> /\ documents[2].id = <<1, 0>>

\* C26: a request the router rejects with status 400 leaves the Document
\* Store as it was, its chunk_size and chunk_overlap settings included.
C26_RejectedLeavesStore ==
  [][response'.status = "400" => UNCHANGED service_vars]_vars

\* C27: an upload the service is called for chunks with the chunk_size and
\* chunk_overlap of its request, 512 and 50 for one the request omits,
\* whatever was configured before, and leaves them as the service's
\* settings; GET /api/config returns the settings in force.
C27_UploadOverwritesConfig ==
  [][/\ (/\ response'.endpoint \in {"/api/documents/upload", "/api/documents/text"}
         /\ response'.status \in {"200", "500"}) =>
          /\ request'.method = "POST"
          /\ chunk_size' = IF request'.chunk_size.given
                           THEN request'.chunk_size.value ELSE 512
          /\ chunk_overlap' = IF request'.chunk_overlap.given
                              THEN request'.chunk_overlap.value ELSE 50
          /\ last'.op = "add"
          /\ last'.stride = chunk_size' - chunk_overlap'
          /\ response'.status = "200" =>
               /\ config_reply'.present
               /\ config_reply'.chunk_size = chunk_size'
               /\ config_reply'.chunk_overlap = chunk_overlap'
     /\ (request'.method = "GET" /\ response'.status = "200") =>
          /\ config_reply'.present
          /\ config_reply'.chunk_size = chunk_size
          /\ config_reply'.chunk_overlap = chunk_overlap]_vars

\* C27 witness: an upload without parameters was served with 512 and 50 on a
\* store whose first record is a one-word chunk made under chunk_size 1
C27_Witness ==
  /\ response.endpoint = "/api/documents/text" /\ response.status = "200"
  /\ ~request.chunk_size.given /\ ~request.chunk_overlap.given
  /\ chunk_size = 512 /\ chunk_overlap = 50 /\ last.stride = 462
  /\ documents # <<>> /\ documents[1].content = <<"a">>

\* C28: query changes neither the collection, nor the embedding matrix, nor
\* the index, nor a file, nor the chunking settings, whether it answers that
\* there are no documents, answers normally, returns the apology text or
\* raises; it may only load the embedding model and the LLM client.
C28_QueryFrame ==
  [][/\ (last'.op = "query"
          /\ <<chunk_size, chunk_overlap>>' = <<chunk_size, chunk_overlap>>) =>
          /\ UNCHANGED <<documents, document_embeddings, index, documents_file,
                         embeddings_file, index_file, data_dir>>
          /\ embedding_model => embedding_model'
          /\ client => client'
     /\ (last'.op = "query" /\ last' # last) =>
          <<chunk_size, chunk_overlap>>' = <<chunk_size, chunk_overlap>>]_vars

\* C28 witness: a query has returned the apology text over a saved collection
\* of two records
C28_Witness ==
  /\ last.op = "query" /\ Len(documents) = 2
  /\ documents_file.state = "ok" /\ JsonLoad(documents_file.data) = documents
  /\ last.answer = ApologyMsg

\* a read that load_existing_data attempts raises: the documents file is
\* unreadable, or the index and embeddings files both exist and one of them
\* is unreadable
LoadRaises ==
  \/ documents_file.state = "corrupt"
  \/ /\ Exists(index_file) /\ Exists(embeddings_file)
     /\ embeddings_file.state = "corrupt" \/ index_file.state = "corrupt"

\* C29: when a step of load_existing_data throws, initialisation goes on with
\* a store that has no documents, no embeddings and no index: the documents
\* are never left loaded next to a failed embeddings or index load, and
\* initialize raises only when the LLM client cannot be made.
C29_FailedLoadEmptiesStore ==
  last.op = "initialize" =>
    /\ LoadRaises =>
         documents = <<>> /\ document_embeddings = <<>> /\ index = NoIndex
    /\ (last.outcome = "returned") = client

\* C29 witness: initialize has returned with an empty store over a readable
\* documents file of one or more records and an unreadable index file
C29_Witness ==
  /\ last.op = "initialize" /\ last.outcome = "returned"
  /\ documents_file.state = "ok" /\ documents_file.data # <<>>
  /\ embeddings_file.state = "ok" /\ index_file.state = "corrupt"
  /\ documents = <<>>

\* the two upload routes and the two query routes of the LangChain router
LcUploadRoutes == {"POST /api/documents/upload", "POST /api/documents/text"}
LcQueryRoutes == {"/api/query", "/query"}

\* C30: in the LangChain application an upload answered with 200 leaves a
\* vector store holding that upload's chunks and nothing else, the query that
\* follows it searches exactly those chunks, and pdf_processed is true only
\* while a vector store exists.
C30_UploadReplacesStore ==
  /\ [](pdf_processed => vector_store.present)
  /\ [][(lc_response'.endpoint \in LcUploadRoutes /\ lc_response'.status = "200")
        => vector_store' = [present |-> TRUE, texts |-> lc_response'.chunks]]_vars
  /\ [][(/\ lc_response.endpoint \in LcUploadRoutes /\ lc_response.status = "200"
         /\ lc_response'.endpoint \in LcQueryRoutes /\ lc_response'.status = "200")
        => lc_response'.searched = lc_response.chunks]_vars

\* C30 witness: a query has been answered from a store of one chunk by a
\* model other than the one the router starts with, so an upload has replaced
\* what was there
C30_Witness ==
  /\ lc_response.endpoint \in LcQueryRoutes /\ lc_response.status = "200"
  /\ lc_response.searched = <<"c1">>
  /\ vector_store = [present |-> TRUE, texts |-> <<"c1">>]
  /\ llm_service.model_name # DefaultModel
  /\ pdf_processed

====
